---- MODULE Spec2Model ----
(***************************************************************************)
(* Fractal Code: the SDK cells (Reactor budget state machine, structural   *)
(* signatures, Channel buffer, health of a family of cells), the           *)
(* validator's checks on a discovered graph, the .fc parser and the skill  *)
(* loader built on it.                                                     *)
(*                                                                         *)
(* Strings are sequences of one-character strings, so that the `+` of the  *)
(* source is sequence concatenation and field boundaries are lost exactly  *)
(* as they are in the source.                                              *)
(***************************************************************************)
EXTENDS Integers, Sequences, FiniteSets, TLC

VARIABLES
    \* ---- one Reactor instance (sdk/src/reactor.ts) ----
    config,            \* the complexityBudget of the config the constructor was given
    reactor,           \* its contract fields: identity, input, output, lineage, signature
    complexityBudget,  \* Reactor._complexityBudget
    maxBudget,         \* Reactor._maxBudget
    onBehaviour,       \* what the handler given as config.on does to its own cell
    childStatus,       \* the statuses the Reactor's children report from health()
    handlerRuns,       \* history: how many times config.on was run
    ownerResets,       \* history: resetBudget() calls made by the owning context
    selfResets,        \* history: resetBudget() calls made from inside config.on
    log,               \* history: one record per on() invocation
    lastOp,            \* history: the last operation performed on the Reactor
    inFlight,          \* the handlers config.on started that have not settled yet
    startedSinceReset, \* history: the handlers started since the last resetBudget()
    \* ---- a heap of SDK cells and what a caller did to them afterwards ----
    cells,             \* sequence of cell objects; children are indices into it
    lastSigned,        \* index of the cell whose signature was computed by the last step, or 0
    tampers,           \* history: number of field mutations made after construction
    clock,             \* the wall clock read by new Date()
    \* ---- one run of the validator over a graph of discovered cells ----
    plan,              \* what the loader found: per cell its kind, its defect, its children
    tree,              \* the DiscoveredCell graph handed to the checks
    report,            \* the outcome of each check of the run, once it was made
    \* ---- one .fc document going through the parser or the skill loader ----
    document,          \* the sections and fields the YAML document holds
    parsed,            \* whether parseFC was called on it and threw; its cell is parseFC(document).cell
    validation,        \* the result of validateCell on the parsed cell
    verdict,           \* the SkillVerdict of loadSingleSkill on the document
    \* ---- a family of SDK cells whose health() is asked ----
    family,            \* sequence of Reactor, Keeper and Channel objects; children are indices
    \* ---- one Channel instance (sdk/src/channel.ts) ----
    buffer,            \* Channel._buffer
    bufferSize,        \* Channel._bufferSize
    sent,              \* history: the items of the send() calls that returned
    received,          \* history: the items the receive() calls returned
    lastCall           \* history: the last call on the Channel and its outcome

reactorVars == <<config, reactor, complexityBudget, maxBudget, onBehaviour, childStatus,
                 handlerRuns, ownerResets, selfResets, log, lastOp, inFlight,
                 startedSinceReset>>
heapVars == <<cells, lastSigned, tampers, clock>>
validatorVars == <<plan, tree, report>>
parserVars == <<document, parsed, validation, verdict>>
channelVars == <<buffer, bufferSize, sent, received, lastCall>>
vars == <<config, reactor, complexityBudget, maxBudget, onBehaviour, childStatus,
          handlerRuns, ownerResets, selfResets, log, lastOp, inFlight, startedSinceReset,
          cells, lastSigned, tampers, clock,
          plan, tree, report,
          document, parsed, validation, verdict,
          family, buffer, bufferSize, sent, received, lastCall>>

\* what the actions on the Reactor, and those on the heap, leave alone
outsideReactor == <<heapVars, validatorVars, parserVars, family, channelVars>>
outsideHeap == <<reactorVars, validatorVars, parserVars, family, channelVars>>

\* no validator run is in progress
NotRun == [ran |-> FALSE, results |-> <<>>]

ValidatorIdle == plan = <<>> /\ tree = <<>> /\ report = NotRun

\* no document was handed to the parser
ParserIdle == document = <<>> /\ parsed = <<>> /\ validation = <<>> /\ verdict = <<>>

\* no cell of the family was constructed
FamilyIdle == family = <<>>

\* what the constructor of a Channel leaves in lastCall
Constructed == [op |-> "constructor", threw |-> FALSE, data |-> "none", before |-> <<>>]

\* the one Channel, constructed and not used
ChannelIdle ==
    /\ buffer = <<>>
    /\ bufferSize = [class |-> "finite", n |-> 1]
    /\ sent = <<>>
    /\ received = <<>>
    /\ lastCall = Constructed

-----------------------------------------------------------------------------
(* Bounds of the model *)

\* on() invocations explored on the one Reactor
MaxCalls == 5
\* the largest complexityBudget given to the constructor
MaxBudgetConfig == 3
\* resetBudget() calls explored (owner and handler together)
MaxResets == 2
\* cells constructed on the heap
MaxCells == 3
\* children handed to one constructor
MaxKids == 2
\* mutations of a constructed cell
MaxTampers == 1
\* nested calls the JavaScript call stack holds before a RangeError
MaxCallStack == 6

\* cells discovered in a run that exercises composition
MaxTopologyCells == 4

\* cells discovered in a run over malformed cells
MaxMalformedCells == 3

\* cells discovered in a run over health reports
MaxHealthCells == 2

\* cells discovered in a run over a graph with a cycle
MaxCycleCells == 3

\* child references in one .fc document
MaxChildRefs == 3

\* the largest whole bufferSize given to the constructor of a Channel
MaxBufferSize == 2

\* send() calls that returned, on the one Channel
MaxSends == 3

\* cells constructed in the family
MaxFamilyCells == 3

\* the largest complexityBudget of a Reactor of the family
MaxFamilyBudget == 1

-----------------------------------------------------------------------------
(* Strings *)

\* The characters in use, in code-unit order (the order Array.prototype.sort
\* compares strings by).
Alphabet == <<"'", ",", ".", "0", "1", ":", "<", ">", "a", "b", "c", "k", "r", "t", "{", "}">>

Ord(ch) == CHOOSE i \in 1..Len(Alphabet) : Alphabet[i] = ch

\* s < t for strings, as the default comparator of Array.prototype.sort has it
RECURSIVE StrLess(_, _)
StrLess(s, t) ==
    IF s = <<>> THEN t # <<>>
    ELSE IF t = <<>> THEN FALSE
    ELSE IF Head(s) = Head(t) THEN StrLess(Tail(s), Tail(t))
    ELSE Ord(Head(s)) < Ord(Head(t))

\* Array.prototype.join with the given separator
RECURSIVE Join(_, _)
Join(strs, sep) ==
    IF strs = <<>> THEN <<>>
    ELSE IF Len(strs) = 1 THEN strs[1]
    ELSE strs[1] \o sep \o Join(Tail(strs), sep)

\* insertion of one string into a sorted sequence
RECURSIVE Insert(_, _)
Insert(s, sorted) ==
    IF sorted = <<>> THEN <<s>>
    ELSE IF StrLess(sorted[1], s) THEN <<sorted[1]>> \o Insert(s, Tail(sorted))
    ELSE <<s>> \o sorted

\* Array.prototype.sort() with the default comparator, on strings
RECURSIVE Sort(_)
Sort(strs) ==
    IF strs = <<>> THEN <<>> ELSE Insert(strs[1], Sort(Tail(strs)))

\* JSON.stringify of a schema object.  A schema is the sequence of its
\* (key, value) properties in insertion order, both strings.
JSONstringify(schema) ==
    LET Prop(p) == <<"'">> \o p[1] \o <<"'", ":", "'">> \o p[2] \o <<"'">>
    IN  <<"{">> \o Join([i \in 1..Len(schema) |-> Prop(schema[i])], <<",">>) \o <<"}">>

-----------------------------------------------------------------------------
(* The signature engine (sdk/src/signature.ts) *)

\* the string of each cell type literal
CellTypeString(cellType) ==
    CASE cellType = "transformer" -> <<"t">>
      [] cellType = "reactor"     -> <<"r">>
      [] cellType = "keeper"      -> <<"k">>
      [] cellType = "channel"     -> <<"c">>

\* cellContent without lineage.trigger
cellContent_noTrigger(cell) ==
    cell.identity.name \o CellTypeString(cell.identity.cellType) \o cell.identity.version
      \o JSONstringify(cell.input.schema) \o JSONstringify(cell.output.schema)
      \o cell.lineage.source \o cell.lineage.justification

cellContent(cell) ==
    cell.identity.name \o CellTypeString(cell.identity.cellType) \o cell.identity.version
      \o JSONstringify(cell.input.schema) \o JSONstringify(cell.output.schema)
      \o cell.lineage.source \o cell.lineage.trigger \o cell.lineage.justification

\* SHA-256 as a collision-free digest of fixed shape: the digest of a string
\* is that string between the two digest marks, which no field contains, so
\* that distinct strings have distinct digests and a concatenation of
\* digests splits in one way only, as a concatenation of 64-character
\* digests does.
sha256(data) == <<"<">> \o data \o <<">">>

\* the optional `children` key of a signature object: absent, or a list
NoChildren == [defined |-> FALSE, list |-> <<>>]

ChildList(hashes) == [defined |-> TRUE, list |-> hashes]

\* new Date().toISOString(): a non-empty string that grows with the clock
ToISOString(time) == [i \in 1..time |-> "1"]

computeLeafSignature(cell) ==
    [hash |-> sha256(cellContent(cell)), children |-> NoChildren,
     timestamp |-> ToISOString(clock)]

\* computeComposedSignature without the sort
computeComposedSignature_unsorted(cell, childSignatures) ==
    LET childHashes == [i \in 1..Len(childSignatures) |-> childSignatures[i].hash]
    IN  [hash |-> sha256(cellContent(cell) \o Join(childHashes, <<>>)),
         children |-> ChildList(childHashes), timestamp |-> ToISOString(clock)]

computeComposedSignature(cell, childSignatures) ==
    LET sortedChildHashes ==
            Sort([i \in 1..Len(childSignatures) |-> childSignatures[i].hash])
    IN  [hash |-> sha256(cellContent(cell) \o Join(sortedChildHashes, <<>>)),
         children |-> ChildList(sortedChildHashes), timestamp |-> ToISOString(clock)]

\* verifySignature that always recomputes the leaf signature
verifySignature_leafOnly(cell, childSignatures) ==
    computeLeafSignature(cell).hash = cell.signature.hash

\* childSignatures is <<>> when the caller passes none
verifySignature(cell, childSignatures) ==
    LET fresh == IF Len(childSignatures) > 0
                 THEN computeComposedSignature(cell, childSignatures)
                 ELSE computeLeafSignature(cell)
    IN  fresh.hash = cell.signature.hash

-----------------------------------------------------------------------------
(* The Reactor (sdk/src/reactor.ts) *)

DEFAULT_COMPLEXITY_BUDGET == 1000

\* the values of config.complexityBudget explored: none given, or a number
BudgetConfigs ==
    {[given |-> FALSE, value |-> 0]}
      \cup {[given |-> TRUE, value |-> v] : v \in -1..MaxBudgetConfig}

\* what a handler given as config.on may do with the cell that owns it: the
\* handler is a closure, resetBudget() is public, and nothing keeps the
\* closure from holding the cell
HandlerBehaviours == {"respond", "resetBudget"}

HealthStatus == {"healthy", "degraded", "unhealthy", "safe-mode"}

\* the children given to the Reactor: none, or one child reporting a status
ChildrenConfigs == {<<>>} \cup {<<st>> : st \in HealthStatus}

validLineage ==
    [source |-> <<"a">>, trigger |-> <<"b">>, justification |-> <<"c">>,
     signature |-> <<"0">>]

\* the signature every child of the modelled Reactor carries
ChildSignature ==
    [hash |-> sha256(<<"c">>), children |-> NoChildren, timestamp |-> ToISOString(1)]

\* Reactor.computeSignature
ReactorComputeSignature(cell, children) ==
    IF Len(children) = 0
    THEN computeLeafSignature(cell)
    ELSE computeComposedSignature(cell, [i \in 1..Len(children) |-> ChildSignature])

\* the fields the constructor assigns before it computes the signature
ReactorFields(name) ==
    [identity |-> [name |-> name, cellType |-> "reactor", version |-> <<"1">>],
     input |-> [schema |-> <<>>, description |-> <<"a">>],
     output |-> [schema |-> <<>>, description |-> <<"b">>],
     lineage |-> validLineage,
     \* { hash: "0".repeat(64), timestamp: new Date().toISOString() }
     signature |-> [hash |-> <<"0">>, children |-> NoChildren,
                    timestamp |-> ToISOString(clock)]]

\* new Reactor(config)
InitBudget ==
    /\ clock = 1
    /\ \E budget \in BudgetConfigs, children \in ChildrenConfigs,
          handler \in HandlerBehaviours :
         \* config.complexityBudget ?? DEFAULT_COMPLEXITY_BUDGET
         /\ maxBudget = IF budget.given THEN budget.value ELSE DEFAULT_COMPLEXITY_BUDGET
         /\ complexityBudget = maxBudget
         /\ config = budget
         /\ onBehaviour = handler
         /\ childStatus = children
         /\ reactor = [ReactorFields(<<"a">>) EXCEPT
                          !.signature = ReactorComputeSignature(ReactorFields(<<"a">>), children)]
    /\ handlerRuns = 0
    /\ ownerResets = 0
    /\ selfResets = 0
    /\ log = <<>>
    /\ lastOp = "constructor"
    /\ inFlight = 0
    /\ startedSinceReset = 0
    /\ cells = <<>>
    /\ lastSigned = 0
    /\ tampers = 0
    /\ ValidatorIdle
    /\ ParserIdle
    /\ FamilyIdle
    /\ ChannelIdle

\* on() with the guard `< 0`
On_strictGuard ==
    /\ Len(log) < MaxCalls
    /\ lastOp' = "on"
    /\ IF complexityBudget < 0
       THEN /\ log' = Append(log, [admitted |-> FALSE, error |-> "Safe-Mode",
                                   remaining |-> complexityBudget])
            /\ UNCHANGED <<complexityBudget, handlerRuns, selfResets>>
       ELSE /\ handlerRuns' = handlerRuns + 1
            /\ IF onBehaviour = "resetBudget"
               THEN /\ complexityBudget' = maxBudget
                    /\ selfResets' = selfResets + 1
               ELSE /\ complexityBudget' = complexityBudget - 1
                    /\ UNCHANGED selfResets
            /\ log' = Append(log, [admitted |-> TRUE, error |-> "none",
                                   remaining |-> complexityBudget'])
    \* an admitted call leaves the promise of the handler pending
    /\ inFlight' = IF log'[Len(log')].admitted THEN inFlight + 1 ELSE inFlight
    /\ startedSinceReset' =
          IF ~log'[Len(log')].admitted THEN startedSinceReset
          ELSE IF onBehaviour = "resetBudget" THEN 0
          ELSE startedSinceReset + 1
    /\ UNCHANGED <<config, reactor, maxBudget, onBehaviour, childStatus, ownerResets>>
    /\ UNCHANGED outsideReactor

\* on() that decrements before it tests the budget
On_decrementFirst ==
    /\ Len(log) < MaxCalls
    /\ lastOp' = "on"
    /\ complexityBudget' =
          IF complexityBudget > 0 /\ onBehaviour = "resetBudget"
          THEN maxBudget ELSE complexityBudget - 1
    /\ IF complexityBudget <= 0
       THEN /\ log' = Append(log, [admitted |-> FALSE, error |-> "Safe-Mode",
                                   remaining |-> complexityBudget'])
            /\ UNCHANGED <<handlerRuns, selfResets>>
       ELSE /\ handlerRuns' = handlerRuns + 1
            /\ selfResets' = IF onBehaviour = "resetBudget"
                             THEN selfResets + 1 ELSE selfResets
            /\ log' = Append(log, [admitted |-> TRUE, error |-> "none",
                                   remaining |-> complexityBudget'])
    \* an admitted call leaves the promise of the handler pending
    /\ inFlight' = IF log'[Len(log')].admitted THEN inFlight + 1 ELSE inFlight
    /\ startedSinceReset' =
          IF ~log'[Len(log')].admitted THEN startedSinceReset
          ELSE IF onBehaviour = "resetBudget" THEN 0
          ELSE startedSinceReset + 1
    /\ UNCHANGED <<config, reactor, maxBudget, onBehaviour, childStatus, ownerResets>>
    /\ UNCHANGED outsideReactor

\* Reactor.on(event): the guard, the decrement and the call of config.on,
\* which run without interruption up to the handler's first await
On ==
    /\ Len(log) < MaxCalls
    /\ lastOp' = "on"
    /\ IF complexityBudget <= 0
       THEN \* throw new Error("... is in Safe-Mode ...")
            /\ log' = Append(log, [admitted |-> FALSE, error |-> "Safe-Mode",
                                   remaining |-> complexityBudget])
            /\ UNCHANGED <<complexityBudget, handlerRuns, selfResets>>
       ELSE \* this._complexityBudget--; return this._on(event)
            /\ handlerRuns' = handlerRuns + 1
            /\ IF onBehaviour = "resetBudget"
               THEN /\ complexityBudget' = maxBudget
                    /\ selfResets' = selfResets + 1
               ELSE /\ complexityBudget' = complexityBudget - 1
                    /\ UNCHANGED selfResets
            /\ log' = Append(log, [admitted |-> TRUE, error |-> "none",
                                   remaining |-> complexityBudget'])
    \* an admitted call leaves the promise of the handler pending
    /\ inFlight' = IF log'[Len(log')].admitted THEN inFlight + 1 ELSE inFlight
    /\ startedSinceReset' =
          IF ~log'[Len(log')].admitted THEN startedSinceReset
          ELSE IF onBehaviour = "resetBudget" THEN 0
          ELSE startedSinceReset + 1
    /\ UNCHANGED <<config, reactor, maxBudget, onBehaviour, childStatus, ownerResets>>
    /\ UNCHANGED outsideReactor

\* resetBudget() that restores the default instead of the configured budget
resetBudget_toDefault ==
    /\ ownerResets < MaxResets
    /\ complexityBudget' = DEFAULT_COMPLEXITY_BUDGET
    /\ ownerResets' = ownerResets + 1
    /\ lastOp' = "resetBudget"
    /\ startedSinceReset' = 0
    /\ UNCHANGED <<config, reactor, maxBudget, onBehaviour, childStatus, handlerRuns,
                   selfResets, log, inFlight>>
    /\ UNCHANGED outsideReactor

\* Reactor.resetBudget(), called by the owning context
resetBudget ==
    /\ ownerResets < MaxResets
    /\ complexityBudget' = maxBudget
    /\ ownerResets' = ownerResets + 1
    /\ lastOp' = "resetBudget"
    /\ startedSinceReset' = 0
    /\ UNCHANGED <<config, reactor, maxBudget, onBehaviour, childStatus, handlerRuns,
                   selfResets, log, inFlight>>
    /\ UNCHANGED outsideReactor

\* health() whose Safe-Mode test is `< 0`
health_strict ==
    LET inSafeMode == complexityBudget < 0
    IN  [status |-> IF inSafeMode THEN "safe-mode" ELSE "healthy",
         budgetRemaining |-> complexityBudget]

\* Reactor.health(): the status and the remaining budget it reports
health ==
    LET inSafeMode == complexityBudget <= 0
        statuses == {childStatus[i] : i \in 1..Len(childStatus)}
    IN  [status |->
            IF Len(childStatus) = 0
            THEN (IF inSafeMode THEN "safe-mode" ELSE "healthy")
            ELSE IF inSafeMode THEN "safe-mode"
            ELSE IF "unhealthy" \in statuses THEN "unhealthy"
            ELSE IF "degraded" \in statuses \/ "safe-mode" \in statuses THEN "degraded"
            ELSE "healthy",
         budgetRemaining |-> complexityBudget]

\* the promise of a handler that was started settles; the handler does
\* nothing to its cell after its first await
HandlerSettles ==
    /\ inFlight > 0
    /\ inFlight' = inFlight - 1
    /\ UNCHANGED <<config, reactor, complexityBudget, maxBudget, onBehaviour, childStatus,
                   handlerRuns, ownerResets, selfResets, log, lastOp, startedSinceReset>>
    /\ UNCHANGED outsideReactor

NextBudget == On \/ resetBudget \/ HandlerSettles

SpecBudget == InitBudget /\ [][NextBudget]_vars

-----------------------------------------------------------------------------
(* A heap of SDK cells: construction, later mutation, verification *)

\* the configs given to constructors: the class (by the cellType its
\* constructor sets) and config.name
CellConfigs == {[class |-> "reactor", name |-> <<"a">>],
                [class |-> "keeper", name |-> <<"b">>]}

\* the value a caller writes into a string field of a constructed cell
FieldValues == {<<"a", "b">>}

\* the string fields a caller may overwrite after construction
MutableFields == {"name", "source", "trigger", "justification", "parentSignature"}

\* the signatures of the children of cell object `cell`: _children.map((c) => c.signature)
ChildSignatures(cell) == [k \in 1..Len(cell.children) |-> cells[cell.children[k]].signature]

\* the private computeSignature() every cell class has
computeSignature(cell) ==
    IF Len(cell.children) = 0
    THEN computeLeafSignature(cell)
    ELSE computeComposedSignature(cell, ChildSignatures(cell))

\* the fields a constructor assigns before it computes the signature
CellFields(class, name, children) ==
    [identity |-> [name |-> name, cellType |-> class, version |-> <<"1">>],
     input |-> [schema |-> <<>>, description |-> <<"a">>],
     output |-> [schema |-> << <<<<"t">>, <<"a">>>> >>, description |-> <<"b">>],
     lineage |-> validLineage,
     signature |-> [hash |-> <<"0">>, children |-> NoChildren,
                    timestamp |-> ToISOString(clock)],
     children |-> children]

\* the cells no other cell holds as a child
Roots == {i \in 1..Len(cells) : \A j \in 1..Len(cells) :
             \A k \in 1..Len(cells[j].children) : cells[j].children[k] # i}

\* the sequences without repetition of at most MaxKids members of S
KidSeqs(S) ==
    {q \in UNION {[1..n -> S] : n \in 0..MaxKids} :
        \A a, b \in 1..Len(q) : a # b => q[a] # q[b]}

\* the Reactor of the budget state machine, constructed and not exercised
ReactorIdle ==
    /\ config = [given |-> TRUE, value |-> 1]
    /\ maxBudget = 1
    /\ complexityBudget = 1
    /\ onBehaviour = "respond"
    /\ childStatus = <<>>
    /\ reactor = [ReactorFields(<<"a">>) EXCEPT
                     !.signature = ReactorComputeSignature(ReactorFields(<<"a">>), <<>>)]
    /\ handlerRuns = 0
    /\ ownerResets = 0
    /\ selfResets = 0
    /\ log = <<>>
    /\ lastOp = "constructor"
    /\ inFlight = 0
    /\ startedSinceReset = 0

\* no SDK cell constructed yet
HeapIdle == cells = <<>> /\ lastSigned = 0 /\ tampers = 0 /\ clock = 1

InitHeap == HeapIdle /\ ReactorIdle /\ ValidatorIdle /\ ParserIdle /\ FamilyIdle /\ ChannelIdle

\* new Reactor(config) / new Keeper(config) with config.children = kids
Construct(class, name, kids) ==
    /\ Len(cells) < MaxCells
    /\ LET fields == CellFields(class, name, kids)
       IN  cells' = Append(cells, [fields EXCEPT !.signature = computeSignature(fields)])
    /\ lastSigned' = Len(cells) + 1
    /\ clock' = clock + 1
    /\ UNCHANGED tampers
    /\ UNCHANGED outsideHeap

\* a caller assigns cell.signature.hash
TamperHash(i, hash) ==
    /\ tampers < MaxTampers
    /\ cells[i].signature.hash # hash
    /\ cells' = [cells EXCEPT ![i].signature.hash = hash]
    /\ tampers' = tampers + 1
    /\ lastSigned' = 0
    /\ UNCHANGED clock
    /\ UNCHANGED outsideHeap

\* the child-hash lists a caller may leave in cell.signature.children
TamperedChildLists(sig) ==
    LET l == sig.children.list
    IN  ({NoChildren}
           \cup (IF l = <<>> THEN {ChildList(<<sha256(<<"b">>)>>)}
                 ELSE {ChildList(SubSeq(l, 1, 1)),
                       ChildList([k \in 1..Len(l) |-> l[Len(l) + 1 - k]]),
                       ChildList(<<sha256(<<"b">>)>> \o Tail(l))}))
          \ {sig.children}

\* a caller assigns cell.signature.children
TamperSignatureChildren(i, list) ==
    /\ tampers < MaxTampers
    /\ list \in TamperedChildLists(cells[i].signature)
    /\ cells' = [cells EXCEPT ![i].signature.children = list]
    /\ tampers' = tampers + 1
    /\ lastSigned' = 0
    /\ UNCHANGED clock
    /\ UNCHANGED outsideHeap

\* cell `cell` with string field `field` set to `value`
WithField(cell, field, value) ==
    CASE field = "name"            -> [cell EXCEPT !.identity.name = value]
      [] field = "source"          -> [cell EXCEPT !.lineage.source = value]
      [] field = "trigger"         -> [cell EXCEPT !.lineage.trigger = value]
      [] field = "justification"   -> [cell EXCEPT !.lineage.justification = value]
      [] field = "parentSignature" -> [cell EXCEPT !.lineage.signature = value]

\* a caller overwrites a contract field without recomputing the signature
TamperField(i, field, value) ==
    /\ tampers < MaxTampers
    /\ WithField(cells[i], field, value) # cells[i]
    /\ cells' = [cells EXCEPT ![i] = WithField(cells[i], field, value)]
    /\ tampers' = tampers + 1
    /\ lastSigned' = 0
    /\ UNCHANGED clock
    /\ UNCHANGED outsideHeap

-----------------------------------------------------------------------------
(* The validator (validator/src): the DiscoveredCell graph and its checks.

   A graph of DiscoveredCell objects is a sequence g of records whose
   `children` are indices into g, so that a graph in which a cell is its own
   descendant is a value too.  A part of a DiscoveredCell that may be
   undefined at run time is a record with the field `undefined`.  A check
   gives [error, violations]: error is "none" when the function returns its
   CheckResult, "TypeError" when it reads a property of undefined, and
   "RangeError" when its recursion exceeds the call stack. *)

VALID_CELL_TYPES == {"transformer", "reactor", "keeper", "channel"}

\* JavaScript numbers: the finite ones and the three special values
Finite(n) == [class |-> "finite", n |-> n]

NaN == [class |-> "NaN", n |-> 0]

PositiveInfinity == [class |-> "Infinity", n |-> 0]

NegativeInfinity == [class |-> "-Infinity", n |-> 0]

\* x < 0 on JavaScript numbers (every comparison with NaN is false)
LessThanZero(x) == (x.class = "finite" /\ x.n < 0) \/ x.class = "-Infinity"

\* a value of any type found where a number is expected, with its typeof
NumberValue(x) == [typeof |-> "number", value |-> x]

StringValue == [typeof |-> "string", value |-> NaN]

UndefinedValue == [typeof |-> "undefined", value |-> NaN]

\* s.trim().length === 0
IsBlank(s) == \A k \in 1..Len(s) : s[k] = " "

Digits == {"0", "1", "2", "3", "4", "5", "6", "7", "8", "9"}

\* SEMVER_REGEX.test(version): /^\d+\.\d+\.\d+/
IsSemver(version) ==
    \E i, j \in 1..Len(version) :
        /\ 1 < i /\ i + 1 < j /\ j < Len(version)
        /\ version[i] = "." /\ version[j] = "."
        /\ \A k \in (1..(i - 1)) \cup ((i + 1)..(j - 1)) \cup {j + 1} : version[k] \in Digits

\* a format test that lets every string through
IsSha256_anything(hash) == TRUE

\* SHA256_REGEX.test(hash), for the digests of this model: the shape sha256 gives
IsSha256(hash) ==
    /\ Len(hash) >= 2
    /\ hash[1] = "<"
    /\ hash[Len(hash)] = ">"

\* the function returned with these violations
Returned(violations) == [error |-> "none", violations |-> violations]

\* the function threw: nothing it had collected reaches the caller
Thrown(error) == [error |-> error, violations |-> <<>>]

\* statement sequencing: b runs only if a did not throw
Then(a, b) ==
    IF a.error # "none" THEN Thrown(a.error)
    ELSE IF b.error # "none" THEN Thrown(b.error)
    ELSE Returned(a.violations \o b.violations)

\* violations.push({ ...ctx, message }) under a condition
Flag(condition, cell, message) ==
    IF condition THEN <<[cell |-> cell.identity.name, message |-> message]>> ELSE <<>>

\* the concatenation of a sequence of sequences
RECURSIVE Concat(_)
Concat(seqs) == IF seqs = <<>> THEN <<>> ELSE Head(seqs) \o Concat(Tail(seqs))

\* cell.children as objects
Children(g, cell) == [k \in 1..Len(cell.children) |-> g[cell.children[k]]]

\* the members of a sequence of cells that are (are not) of cellType "channel"
ChannelsOf(kids) ==
    LET IsChannel(c) == c.identity.cellType = "channel" IN SelectSeq(kids, IsChannel)

NonChannelsOf(kids) ==
    LET IsOther(c) == c.identity.cellType # "channel" IN SelectSeq(kids, IsOther)

\* list.includes(name), for an optional list: `list ?? []`
Includes(optional, name) ==
    optional.defined /\ \E k \in 1..Len(optional.list) : optional.list[k] = name

\* the test without its `list.length === 0` half
MissingOrEmpty_onlyMissing(optional) == ~optional.defined

\* !list || list.length === 0
MissingOrEmpty(optional) == ~optional.defined \/ optional.list = <<>>

\* cellToDiscovered for an SDK cell object: the fields are copied, toMap() and
\* health() are called, the children stay references into the same heap
cellToDiscovered(cell) ==
    LET kids == [k \in 1..Len(cell.children) |-> cells[cell.children[k]]]
    IN  [filePath |-> [declaredType |-> cell.identity.cellType],
         identity |-> cell.identity,
         input |-> [undefined |-> FALSE, schema |-> cell.input.schema,
                    description |-> cell.input.description],
         output |-> [undefined |-> FALSE, schema |-> cell.output.schema,
                     description |-> cell.output.description],
         lineage |-> [undefined |-> FALSE, source |-> cell.lineage.source,
                      trigger |-> cell.lineage.trigger,
                      justification |-> cell.lineage.justification,
                      signature |-> cell.lineage.signature],
         signature |-> [undefined |-> FALSE, hash |-> cell.signature.hash,
                        children |-> cell.signature.children,
                        timestamp |-> cell.signature.timestamp],
         \* cell.toMap()
         contextMap |-> [undefined |-> FALSE,
                         identity |-> cell.identity,
                         children |-> ChildList([k \in 1..Len(kids) |-> kids[k].identity.name]),
                         channels |-> ChildList([k \in 1..Len(ChannelsOf(kids)) |->
                                                    ChannelsOf(kids)[k].identity.name]),
                         signature |-> cell.signature.hash],
         children |-> cell.children,
         hasHealthMethod |-> TRUE,
         hasToMapMethod |-> TRUE,
         \* safeHealth(cell): a cell that has served no request yet
         healthReport |-> [undefined |-> FALSE, status |-> "healthy",
                           budgetRemaining |->
                               IF cell.identity.cellType \in {"transformer", "reactor"}
                               THEN NumberValue(Finite(DEFAULT_COMPLEXITY_BUDGET))
                               ELSE UndefinedValue]]

\* the DiscoveredCell graph of the heap of SDK cells
DiscoveredHeap == [i \in 1..Len(cells) |-> cellToDiscovered(cells[i])]

\* a recomputation that leaves the justification out of the content
recomputeHash_noJustification(g, cell) ==
    LET ownContent ==
            cell.identity.name \o CellTypeString(cell.identity.cellType)
              \o cell.identity.version
              \o JSONstringify(cell.input.schema) \o JSONstringify(cell.output.schema)
              \o cell.lineage.source \o cell.lineage.trigger
        sortedChildHashes ==
            Sort([k \in 1..Len(cell.children) |-> g[cell.children[k]].signature.hash])
    IN  [error |-> "none",
         hash |-> IF Len(cell.children) = 0
                  THEN sha256(ownContent)
                  ELSE sha256(ownContent \o Join(sortedChildHashes, <<>>))]

\* recomputeHash: [error, hash]
recomputeHash(g, cell) ==
    IF cell.input.undefined \/ cell.output.undefined \/ cell.lineage.undefined
    THEN [error |-> "TypeError", hash |-> <<>>]
    ELSE IF \E k \in 1..Len(cell.children) : g[cell.children[k]].signature.undefined
    THEN [error |-> "TypeError", hash |-> <<>>]
    ELSE
    LET ownContent ==
            cell.identity.name \o CellTypeString(cell.identity.cellType)
              \o cell.identity.version
              \o JSONstringify(cell.input.schema) \o JSONstringify(cell.output.schema)
              \o cell.lineage.source \o cell.lineage.trigger \o cell.lineage.justification
        sortedChildHashes ==
            Sort([k \in 1..Len(cell.children) |-> g[cell.children[k]].signature.hash])
    IN  [error |-> "none",
         hash |-> IF Len(cell.children) = 0
                  THEN sha256(ownContent)
                  ELSE sha256(ownContent \o Join(sortedChildHashes, <<>>))]

\* signatureCheck without its comparison of cell.signature.children
SignatureViolations_noChildList(g, cell, expected) ==
    Flag(cell.signature.hash # expected, cell, "Signature mismatch")
    \o Flag(cell.signature.timestamp = <<>>, cell, "Missing signature.timestamp")

\* the violations signatureCheck pushes for one cell whose hash is well formed
\* and recomputed as `expected`, before it recurses
SignatureViolations(g, cell, expected) ==
    LET sortedChildHashes ==
            Sort([k \in 1..Len(cell.children) |-> g[cell.children[k]].signature.hash])
        \* cell.signature.children ?? []
        sigChildren == IF cell.signature.children.defined
                       THEN cell.signature.children.list ELSE <<>>
    IN  Flag(cell.signature.hash # expected, cell, "Signature mismatch")
        \o (IF Len(cell.children) = 0 THEN <<>>
            ELSE IF Len(sigChildren) # Len(sortedChildHashes)
            THEN Flag(TRUE, cell, "Signature children count mismatch")
            ELSE Flag(\E k \in 1..Len(sortedChildHashes) : sigChildren[k] # sortedChildHashes[k],
                      cell, "Signature children hash mismatch"))
        \o Flag(cell.signature.timestamp = <<>>, cell, "Missing signature.timestamp")

\* signatureCheck(cells), at call depth `depth`
RECURSIVE signatureCheck(_, _, _)
signatureCheck(g, list, depth) ==
    IF depth > MaxCallStack THEN Thrown("RangeError")
    ELSE IF list = <<>> THEN Returned(<<>>)
    ELSE LET cell == g[Head(list)]
             expected == recomputeHash(g, cell)
             this ==
                 IF cell.signature.undefined THEN Thrown("TypeError")
                 ELSE IF cell.signature.hash = <<>> \/ ~IsSha256(cell.signature.hash)
                 THEN \* the format violation, then `continue`
                      Returned(Flag(TRUE, cell, "Invalid signature hash format"))
                 ELSE IF expected.error # "none" THEN Thrown(expected.error)
                 ELSE Then(Returned(SignatureViolations(g, cell, expected.hash)),
                           IF Len(cell.children) > 0
                           THEN signatureCheck(g, cell.children, depth + 1)
                           ELSE Returned(<<>>))
         IN  Then(this, signatureCheck(g, Tail(list), depth))

\* selfSimilarityCheck(cells), at call depth `depth`
RECURSIVE selfSimilarityCheck(_, _, _)
selfSimilarityCheck(g, list, depth) ==
    IF depth > MaxCallStack THEN Thrown("RangeError")
    ELSE IF list = <<>> THEN Returned(<<>>)
    ELSE LET cell == g[Head(list)]
             kids == Children(g, cell)
             declarations ==
                 Flag(cell.identity.name = <<>> \/ IsBlank(cell.identity.name), cell,
                      "Composed cell lacks its own identity.name")
                 \o Flag(cell.input.undefined \/ cell.input.description = <<>>, cell,
                         "Composed cell lacks its own input declaration")
                 \o Flag(cell.output.undefined \/ cell.output.description = <<>>, cell,
                         "Composed cell lacks its own output declaration")
             ofChild(k) ==
                 Flag(kids[k].identity.name = <<>>, cell, "Child cell lacks identity")
                 \o Flag(kids[k].lineage.undefined \/ kids[k].lineage.justification = <<>>,
                         kids[k], "Child cell lacks lineage")
             this ==
                 IF Len(cell.children) = 0 THEN Returned(<<>>)
                 ELSE IF cell.signature.undefined THEN Thrown("TypeError")
                 ELSE Then(Returned(declarations
                                \o Flag(MissingOrEmpty(cell.signature.children), cell,
                                        "Composed cell's signature does not include child signatures")
                                \o Concat([k \in 1..Len(kids) |-> ofChild(k)])),
                           selfSimilarityCheck(g, cell.children, depth + 1))
         IN  Then(this, selfSimilarityCheck(g, Tail(list), depth))

\* cellTypeCheck(cells), at call depth `depth`
RECURSIVE cellTypeCheck(_, _, _)
cellTypeCheck(g, list, depth) ==
    IF depth > MaxCallStack THEN Thrown("RangeError")
    ELSE IF list = <<>> THEN Returned(<<>>)
    ELSE LET cell == g[Head(list)]
             declaredType == cell.filePath.declaredType
             this ==
                 Then(Returned(Flag(cell.identity.cellType \notin VALID_CELL_TYPES, cell,
                                    "Invalid cellType")
                               \o Flag(declaredType \in VALID_CELL_TYPES
                                         /\ declaredType # cell.identity.cellType, cell,
                                       "File name suggests another type")),
                      IF Len(cell.children) > 0
                      THEN cellTypeCheck(g, cell.children, depth + 1)
                      ELSE Returned(<<>>))
         IN  Then(this, cellTypeCheck(g, Tail(list), depth))

\* contractCheck(cells), at call depth `depth`
RECURSIVE contractCheck(_, _, _)
contractCheck(g, list, depth) ==
    IF depth > MaxCallStack THEN Thrown("RangeError")
    ELSE IF list = <<>> THEN Returned(<<>>)
    ELSE LET cell == g[Head(list)]
             declaration(part, missing, undescribed) ==
                 IF part.undefined
                 THEN Flag(TRUE, cell, missing)
                 ELSE Flag(part.description = <<>> \/ IsBlank(part.description), cell,
                           undescribed)
             own ==
                 Flag(cell.identity.name = <<>> \/ IsBlank(cell.identity.name), cell,
                      "Missing identity.name")
                 \o Flag(cell.identity.version = <<>> \/ ~IsSemver(cell.identity.version), cell,
                         "Invalid identity.version")
                 \o declaration(cell.input, "Missing input declaration", "Missing input.description")
                 \o declaration(cell.output, "Missing output declaration", "Missing output.description")
                 \o Flag(~cell.hasHealthMethod, cell, "Missing health() method")
                 \o Flag(cell.lineage.undefined, cell, "Missing lineage (Intent Ledger) declaration")
                 \o (IF cell.signature.undefined
                     THEN Flag(TRUE, cell, "Missing signature")
                     ELSE Flag(cell.signature.hash = <<>> \/ ~IsSha256(cell.signature.hash), cell,
                               "Invalid signature.hash")
                          \o Flag(cell.signature.timestamp = <<>>, cell,
                                  "Missing signature.timestamp"))
             this ==
                 Then(Returned(own),
                      IF Len(cell.children) > 0
                      THEN contractCheck(g, cell.children, depth + 1)
                      ELSE Returned(<<>>))
         IN  Then(this, contractCheck(g, Tail(list), depth))

\* the topology test with a threshold of three siblings
LacksChannel_threeSiblings(nonChannelChildren, channelChildren) ==
    Len(nonChannelChildren) >= 3 /\ Len(channelChildren) = 0

\* nonChannelChildren.length >= 2 && channelChildren.length === 0
LacksChannel(nonChannelChildren, channelChildren) ==
    Len(nonChannelChildren) >= 2 /\ Len(channelChildren) = 0

\* compositionCheck(cells), at call depth `depth`
RECURSIVE compositionCheck(_, _, _)
compositionCheck(g, list, depth) ==
    IF depth > MaxCallStack THEN Thrown("RangeError")
    ELSE IF list = <<>> THEN Returned(<<>>)
    ELSE LET cell == g[Head(list)]
             kids == Children(g, cell)
             nonChannelChildren == NonChannelsOf(kids)
             channelChildren == ChannelsOf(kids)
             unlisted(child) ==
                 Flag(~Includes(cell.contextMap.children, child.identity.name), cell,
                      "Child exists but is not listed in parent's context map")
             unlistedChannel(child) ==
                 Flag(~Includes(cell.contextMap.channels, child.identity.name), cell,
                      "Channel exists as a child but is not listed in parent's context map channels")
             own ==
                 \* cell.contextMap.children of an undefined contextMap
                 IF cell.contextMap.undefined THEN Thrown("TypeError")
                 ELSE Returned(
                        Flag(LacksChannel(nonChannelChildren, channelChildren), cell,
                             "no Channel to mediate communication")
                        \o Concat([k \in 1..Len(kids) |-> unlisted(kids[k])])
                        \o Concat([k \in 1..Len(channelChildren) |->
                                      unlistedChannel(channelChildren[k])]))
             \* for (const child of cell.children) if (child.children.length > 0) ...
             intoChild(k) ==
                 IF Len(kids[k].children) > 0
                 THEN compositionCheck(g, <<cell.children[k]>>, depth + 1)
                 ELSE Returned(<<>>)
             into[k \in 0..Len(kids)] ==
                 IF k = 0 THEN Returned(<<>>) ELSE Then(into[k - 1], intoChild(k))
             this ==
                 \* if (cell.children.length === 0) continue
                 IF Len(cell.children) = 0 THEN Returned(<<>>)
                 ELSE Then(own, into[Len(kids)])
         IN  Then(this, compositionCheck(g, Tail(list), depth))

\* contextMapCheck(cells), at call depth `depth`
RECURSIVE contextMapCheck(_, _, _)
contextMapCheck(g, list, depth) ==
    IF depth > MaxCallStack THEN Thrown("RangeError")
    ELSE IF list = <<>> THEN Returned(<<>>)
    ELSE LET cell == g[Head(list)]
             map == cell.contextMap
             own ==
                 Flag(map.identity.name = <<>>, cell, "Context map missing identity")
                 \o Flag(map.signature = <<>>, cell, "Context map missing signature reference")
                 \o (IF Len(cell.children) = 0 THEN <<>>
                     ELSE Flag(MissingOrEmpty(map.children), cell,
                               "Composed cell's context map does not list children")
                          \o Flag(Len(ChannelsOf(Children(g, cell))) > 0
                                    /\ MissingOrEmpty(map.channels), cell,
                                  "Composed cell has Channel children but context map does not list channels"))
             this ==
                 IF ~cell.hasToMapMethod
                 THEN \* the violation, then `continue`
                      Returned(Flag(TRUE, cell, "Cell lacks toMap() method"))
                 \* map.identity of an undefined contextMap
                 ELSE IF map.undefined THEN Thrown("TypeError")
                 ELSE Then(Returned(own),
                           IF Len(cell.children) > 0
                           THEN contextMapCheck(g, cell.children, depth + 1)
                           ELSE Returned(<<>>))
         IN  Then(this, contextMapCheck(g, Tail(list), depth))

\* the inner function check(cell) of circuitBreakerCheck, at call depth `depth`
RECURSIVE circuitBreakerVisit(_, _, _)
circuitBreakerVisit(g, i, depth) ==
    IF depth > MaxCallStack THEN Thrown("RangeError")
    ELSE LET cell == g[i]
             needsCircuitBreaker == cell.identity.cellType \in {"transformer", "reactor"}
             healthReport == cell.healthReport
             own ==
                 IF ~needsCircuitBreaker THEN <<>>
                 ELSE (IF ~cell.hasHealthMethod
                       THEN Flag(TRUE, cell, "lacks health() method")
                       ELSE Flag(~healthReport.undefined
                                   /\ healthReport.budgetRemaining.typeof = "undefined", cell,
                                 "health() does not report budgetRemaining"))
                      \o Flag(~healthReport.undefined
                                /\ healthReport.budgetRemaining.typeof # "undefined"
                                /\ (healthReport.budgetRemaining.typeof # "number"
                                      \/ LessThanZero(healthReport.budgetRemaining.value)), cell,
                              "budgetRemaining must be a non-negative number")
             into[k \in 0..Len(cell.children)] ==
                 IF k = 0 THEN Returned(<<>>)
                 ELSE Then(into[k - 1], circuitBreakerVisit(g, cell.children[k], depth + 1))
         IN  Then(Returned(own), into[Len(cell.children)])

\* circuitBreakerCheck(cells)
RECURSIVE circuitBreakerCheck(_, _, _)
circuitBreakerCheck(g, list, depth) ==
    IF depth > MaxCallStack THEN Thrown("RangeError")
    ELSE IF list = <<>> THEN Returned(<<>>)
    ELSE Then(circuitBreakerVisit(g, Head(list), depth + 1),
              circuitBreakerCheck(g, Tail(list), depth))

\* the inner function check(cell) of lineageCheck, at call depth `depth`
RECURSIVE lineageVisit(_, _, _)
lineageVisit(g, i, depth) ==
    IF depth > MaxCallStack THEN Thrown("RangeError")
    ELSE LET cell == g[i]
             required(value, message) ==
                 Flag(value = <<>> \/ IsBlank(value), cell, message)
             own ==
                 IF cell.lineage.undefined
                 THEN Flag(TRUE, cell, "Missing lineage (Intent Ledger) entirely")
                 ELSE required(cell.lineage.source, "lineage.source is required")
                      \o required(cell.lineage.trigger, "lineage.trigger is required")
                      \o required(cell.lineage.justification, "lineage.justification is required")
                      \o required(cell.lineage.signature, "lineage.signature is required")
             into[k \in 0..Len(cell.children)] ==
                 IF k = 0 THEN Returned(<<>>)
                 ELSE Then(into[k - 1], lineageVisit(g, cell.children[k], depth + 1))
         IN  Then(Returned(own), into[Len(cell.children)])

\* lineageCheck(cells)
RECURSIVE lineageCheck(_, _, _)
lineageCheck(g, list, depth) ==
    IF depth > MaxCallStack THEN Thrown("RangeError")
    ELSE IF list = <<>> THEN Returned(<<>>)
    ELSE Then(lineageVisit(g, Head(list), depth + 1),
              lineageCheck(g, Tail(list), depth))

\* the eight checks, in the order main() runs them
CheckNames ==
    <<"cellTypeCheck", "contractCheck", "compositionCheck", "selfSimilarityCheck",
      "contextMapCheck", "signatureCheck", "circuitBreakerCheck", "lineageCheck">>

\* the outcome of each of the eight checks on the cells `roots` of graph g
RunChecks(g, roots) ==
    [cellTypeCheck |-> cellTypeCheck(g, roots, 1),
     contractCheck |-> contractCheck(g, roots, 1),
     compositionCheck |-> compositionCheck(g, roots, 1),
     selfSimilarityCheck |-> selfSimilarityCheck(g, roots, 1),
     contextMapCheck |-> contextMapCheck(g, roots, 1),
     signatureCheck |-> signatureCheck(g, roots, 1),
     circuitBreakerCheck |-> circuitBreakerCheck(g, roots, 1),
     lineageCheck |-> lineageCheck(g, roots, 1)]

\* the hashes a caller may forge: another digest (well-formed) and the empty
\* string (malformed)
ForgedHashes == {sha256(<<"b">>), <<>>}

NextHeap ==
    \/ \E cfg \in CellConfigs, kids \in KidSeqs(Roots) :
          Construct(cfg.class, cfg.name, kids)
    \/ \E i \in 1..Len(cells), hash \in ForgedHashes : TamperHash(i, hash)
    \/ \E i \in 1..Len(cells) :
          \E list \in TamperedChildLists(cells[i].signature) : TamperSignatureChildren(i, list)
    \/ \E i \in 1..Len(cells), field \in MutableFields, value \in FieldValues :
          TamperField(i, field, value)

SpecHeap == InitHeap /\ [][NextHeap]_vars

-----------------------------------------------------------------------------
(* A run of the validator: a graph of cells is discovered, then main() runs
   the eight checks on it.  The graph is described by `plan` (per cell its
   kind, the one defect it has, its children) and built as `tree` the way the
   validator's tests build their cells: children first, every cell signed
   over its children as they are, then its defect applied. *)

\* identity.name of the i-th discovered cell
NodeName(i) == [k \in 1..i |-> "a"]

\* makeCell(): a valid leaf DiscoveredCell of the given identity, not yet signed
makeCell(identity) ==
    [filePath |-> [declaredType |-> identity.cellType],
     identity |-> identity,
     input |-> [undefined |-> FALSE, schema |-> <<>>, description |-> <<"a">>],
     output |-> [undefined |-> FALSE, schema |-> <<>>, description |-> <<"b">>],
     lineage |-> [undefined |-> FALSE, source |-> validLineage.source,
                  trigger |-> validLineage.trigger,
                  justification |-> validLineage.justification,
                  signature |-> validLineage.signature],
     signature |-> [undefined |-> FALSE, hash |-> <<>>, children |-> NoChildren,
                    timestamp |-> ToISOString(1)],
     contextMap |-> [undefined |-> FALSE, identity |-> identity,
                     children |-> ChildList(<<>>), channels |-> ChildList(<<>>),
                     signature |-> <<>>],
     children |-> <<>>,
     hasHealthMethod |-> TRUE,
     hasToMapMethod |-> TRUE,
     healthReport |-> [undefined |-> FALSE, status |-> "healthy",
                       budgetRemaining |-> NumberValue(Finite(100))]]

\* makeComposedCell(): the cell given its children, its context map listing
\* them, and its signature computed over them (computeHash)
makeComposedCell(g, cell, children) ==
    LET kids == [k \in 1..Len(children) |-> g[children[k]]]
        withKids == [cell EXCEPT
                        !.children = children,
                        !.contextMap.children =
                            ChildList([k \in 1..Len(kids) |-> kids[k].identity.name]),
                        !.contextMap.channels =
                            ChildList([k \in 1..Len(ChannelsOf(kids)) |->
                                          ChannelsOf(kids)[k].identity.name])]
        \* a child without a signature contributes nothing: no check gets as
        \* far as comparing the hash of such a parent
        hash == recomputeHash(g, [withKids EXCEPT !.children =
                    SelectSeq(children, LAMBDA c : ~g[c].signature.undefined)]).hash
    IN  [withKids EXCEPT
            !.signature.hash = hash,
            !.signature.children =
                IF Len(children) = 0 THEN NoChildren
                ELSE ChildList(Sort([k \in 1..Len(kids) |-> kids[k].signature.hash])),
            !.contextMap.signature = hash]

\* the defects a discovered cell may have
Defects ==
    {"none",
     \* a part of the DiscoveredCell is undefined
     "noInput", "noOutput", "noLineage", "noSignature", "noContextMap",
     \* the stored hash is not 64 hex digits, or is another cell's hash
     "badHashFormat", "wrongHash",
     \* the cell object has no toMap(), no health(), or a health() that throws
     "noToMap", "noHealth", "healthThrows",
     \* what health() reports as budgetRemaining
     "noBudgetRemaining", "zero", "negative", "NaN", "Infinity", "-Infinity", "string",
     \* the context map leaves out the first child, or the first Channel child
     "mapOmitsChild", "mapOmitsChannel"}

\* cell `cell` with defect `defect`
ApplyDefect(cell, defect) ==
    LET budget(x) == [cell EXCEPT !.healthReport.budgetRemaining = x]
        withoutFirst(optional) ==
            IF optional.list = <<>> THEN optional ELSE ChildList(Tail(optional.list))
    IN  CASE defect = "none" -> cell
          [] defect = "noInput" -> [cell EXCEPT !.input.undefined = TRUE]
          [] defect = "noOutput" -> [cell EXCEPT !.output.undefined = TRUE]
          [] defect = "noLineage" -> [cell EXCEPT !.lineage.undefined = TRUE]
          [] defect = "noSignature" -> [cell EXCEPT !.signature.undefined = TRUE]
          [] defect = "noContextMap" -> [cell EXCEPT !.contextMap.undefined = TRUE]
          [] defect = "badHashFormat" -> [cell EXCEPT !.signature.hash = <<"a", "b">>]
          [] defect = "wrongHash" -> [cell EXCEPT !.signature.hash = sha256(<<"b">>)]
          [] defect = "noToMap" -> [cell EXCEPT !.hasToMapMethod = FALSE]
          [] defect = "noHealth" -> [cell EXCEPT !.hasHealthMethod = FALSE,
                                                 !.healthReport.undefined = TRUE]
          [] defect = "healthThrows" -> [cell EXCEPT !.healthReport.undefined = TRUE]
          [] defect = "noBudgetRemaining" -> budget(UndefinedValue)
          [] defect = "zero" -> budget(NumberValue(Finite(0)))
          [] defect = "negative" -> budget(NumberValue(Finite(-1)))
          [] defect = "NaN" -> budget(NumberValue(NaN))
          [] defect = "Infinity" -> budget(NumberValue(PositiveInfinity))
          [] defect = "-Infinity" -> budget(NumberValue(NegativeInfinity))
          [] defect = "string" -> budget(StringValue)
          [] defect = "mapOmitsChild" ->
                [cell EXCEPT !.contextMap.children = withoutFirst(@)]
          [] defect = "mapOmitsChannel" ->
                [cell EXCEPT !.contextMap.channels = withoutFirst(@)]

\* the i-th cell of plan p, its children already built in g
BuildCell(p, i, g) ==
    ApplyDefect(
        makeComposedCell(g,
            makeCell([name |-> NodeName(i), cellType |-> p[i].kind,
                      version |-> <<"1", ".", "0", ".", "0">>]),
            p[i].children),
        p[i].defect)

\* the cells i..Len(p) of plan p, from the last one down: a child is always
\* discovered after its parent
RECURSIVE BuildFrom(_, _, _)
BuildFrom(p, i, g) ==
    IF i = 0 THEN g
    ELSE BuildFrom(p, i - 1,
             [k \in i..Len(p) |-> IF k = i THEN BuildCell(p, i, g) ELSE g[k]])

\* the DiscoveredCell graph of plan p; a cell that was afterwards given one of
\* its ancestors (or itself) as a child keeps its signature and context map
Build(p) ==
    LET g == BuildFrom(p, Len(p), <<>>)
    IN  [i \in 1..Len(p) |-> [g[i] EXCEPT !.children = @ \o p[i].backEdges]]

\* the parent of cell i in plan p (0 for the root)
ParentOf(p, i) ==
    IF \E j \in 1..Len(p) : \E k \in 1..Len(p[j].children) : p[j].children[k] = i
    THEN CHOOSE j \in 1..Len(p) : \E k \in 1..Len(p[j].children) : p[j].children[k] = i
    ELSE 0

\* cell i of plan p and its ancestors
RECURSIVE AncestorsOrSelf(_, _)
AncestorsOrSelf(p, i) ==
    IF i = 0 THEN {} ELSE {i} \cup AncestorsOrSelf(p, ParentOf(p, i))

\* the depth of cell i in plan p (the root is at depth 0)
DepthOf(p, i) == Cardinality(AncestorsOrSelf(p, i)) - 1

\* plan p is a tree: no cell was given an ancestor as a child
IsTree(p) == \A i \in 1..Len(p) : p[i].backEdges = <<>>

\* plan p with one more cell under `parent` (0: as the root)
WithCell(p, parent, profile) ==
    LET new == [kind |-> profile.kind, defect |-> profile.defect,
                children |-> <<>>, backEdges |-> <<>>]
    IN  Append([i \in 1..Len(p) |->
                   IF i = parent THEN [p[i] EXCEPT !.children = Append(@, Len(p) + 1)]
                   ELSE p[i]],
               new)

\* what the validator's run leaves alone
outsideValidator == <<reactorVars, heapVars, parserVars, family, channelVars>>

\* the loader discovers one more cell, a child of `parent`
Discover(parent, profile, cap) ==
    /\ ~report.ran
    /\ Len(plan) < cap
    /\ IsTree(plan)
    /\ IF plan = <<>> THEN parent = 0 ELSE parent \in 1..Len(plan)
    /\ plan' = WithCell(plan, parent, profile)
    /\ tree' = Build(plan')
    /\ UNCHANGED report
    /\ UNCHANGED outsideValidator

\* cell i is given j, itself or one of its ancestors, as one more child
AddBackEdge(i, j) ==
    /\ ~report.ran
    /\ IsTree(plan)
    /\ i \in 1..Len(plan)
    /\ j \in AncestorsOrSelf(plan, i)
    /\ plan' = [plan EXCEPT ![i].backEdges = <<j>>]
    /\ tree' = Build(plan')
    /\ UNCHANGED report
    /\ UNCHANGED outsideValidator

\* main(): the eight checks are run on the loaded cells
Validate ==
    /\ ~report.ran
    /\ plan # <<>>
    /\ report' = [ran |-> TRUE, results |-> RunChecks(tree, <<1>>)]
    /\ UNCHANGED <<plan, tree>>
    /\ UNCHANGED outsideValidator

InitValidator == HeapIdle /\ ReactorIdle /\ ValidatorIdle /\ ParserIdle /\ FamilyIdle /\ ChannelIdle

\* the cells of a composition: two non-Channel kinds, a Channel, and the two
\* ways a context map can leave a child out
TopologyProfiles ==
    {[kind |-> "transformer", defect |-> "none"],
     [kind |-> "channel", defect |-> "none"],
     [kind |-> "keeper", defect |-> "mapOmitsChild"],
     [kind |-> "transformer", defect |-> "mapOmitsChannel"]}

NextTopology ==
    \/ \E parent \in 0..MaxTopologyCells, profile \in TopologyProfiles :
          Discover(parent, profile, MaxTopologyCells)
    \/ Validate

SpecTopology == InitValidator /\ [][NextTopology]_vars

\* malformed cells: a part of the cell is missing, or its signature is wrong
MalformedProfiles ==
    {[kind |-> "transformer", defect |-> d] :
        d \in {"none", "noInput", "noOutput", "noLineage", "noSignature",
                "noContextMap", "badHashFormat", "wrongHash", "noToMap"}}
    \cup {[kind |-> "channel", defect |-> "none"]}

NextMalformed ==
    \/ \E parent \in 0..MaxMalformedCells, profile \in MalformedProfiles :
          Discover(parent, profile, MaxMalformedCells)
    \/ Validate

SpecMalformed == InitValidator /\ [][NextMalformed]_vars

\* what health() of a cell may give the validator
HealthProfiles ==
    {[kind |-> "transformer", defect |-> d] :
        d \in {"none", "zero", "negative", "NaN", "Infinity", "-Infinity", "string",
                "noBudgetRemaining", "noHealth", "healthThrows"}}
    \cup {[kind |-> "reactor", defect |-> d] :
            d \in {"zero", "negative", "NaN", "healthThrows"}}
    \cup {[kind |-> "keeper", defect |-> d] :
            d \in {"noBudgetRemaining", "noHealth", "negative"}}
    \cup {[kind |-> "channel", defect |-> d] : d \in {"noBudgetRemaining", "NaN"}}

NextHealth ==
    \/ \E parent \in 0..MaxHealthCells, profile \in HealthProfiles :
          Discover(parent, profile, MaxHealthCells)
    \/ Validate

SpecHealth == InitValidator /\ [][NextHealth]_vars

\* the cells of a graph with a cycle: well formed, or with one of the two
\* defects after which a check goes on to the next cell without descending
CycleProfiles ==
    {[kind |-> "transformer", defect |-> "none"],
     [kind |-> "keeper", defect |-> "none"],
     [kind |-> "transformer", defect |-> "badHashFormat"],
     [kind |-> "transformer", defect |-> "noToMap"]}

NextCycle ==
    \/ \E parent \in 0..MaxCycleCells, profile \in CycleProfiles :
          Discover(parent, profile, MaxCycleCells)
    \/ \E i, j \in 1..MaxCycleCells : AddBackEdge(i, j)
    \/ Validate

SpecCycle == InitValidator /\ [][NextCycle]_vars

-----------------------------------------------------------------------------
(* The .fc parser (parseFC, validateCell) and the skill loader built on it
   (loadSingleSkill).  A document is described by the sections and fields it
   holds; the strings in it are TLA+ strings, "" the empty one. *)

CELL_TYPES == {"Transformer", "Reactor", "Keeper", "Channel"}

\* SAFE_MODE_ACTIONS[type]
SAFE_MODE_ACTIONS(type) ==
    CASE type = "Transformer" -> "halt"
      [] type = "Reactor"     -> "halt"
      [] type = "Keeper"      -> "read_only"
      [] type = "Channel"     -> "drop_newest"

MAX_SAFE_BUDGET == 1000000

\* a key of the document with a string under it, and a key that is not there
Given(value) == [given |-> TRUE, value |-> value]

Missing == [given |-> FALSE, value |-> ""]

\* String(obj.key ?? "")
StringOrEmpty(key) == IF key.given THEN key.value ELSE ""

\* the number n + 1/2
Fractional(n) == [class |-> "fractional", n |-> n]

\* Number.isInteger(x)
IsInteger(x) == x.class = "finite"

\* x <= 0 on JavaScript numbers
AtMostZero(x) ==
    \/ x.class = "finite" /\ x.n <= 0
    \/ x.class = "fractional" /\ x.n < 0
    \/ x.class = "-Infinity"

\* x > m on JavaScript numbers, m an integer
GreaterThan(x, m) ==
    \/ x.class = "finite" /\ x.n > m
    \/ x.class = "fractional" /\ x.n >= m
    \/ x.class = "Infinity"

\* type.toLowerCase()
ToLowerCase(type) ==
    CASE type = "Transformer" -> "transformer"
      [] type = "Reactor"     -> "reactor"
      [] type = "Keeper"      -> "keeper"
      [] type = "Channel"     -> "channel"
      [] OTHER                -> type

\* what a document may have under circuit_breaker.complexity_budget
BudgetValues ==
    {NumberValue(Finite(n)) : n \in {-1, 0, 1, MAX_SAFE_BUDGET, MAX_SAFE_BUDGET + 1}}
    \cup {NumberValue(Fractional(1)), NumberValue(PositiveInfinity), NumberValue(NaN),
          StringValue, UndefinedValue}

\* the identity sections of the documents
DocumentIdentities ==
    {[present |-> FALSE, name |-> Missing, version |-> Missing, type |-> Missing]}
    \cup {[present |-> TRUE, name |-> Given("a"), version |-> Given("1.0.0"), type |-> t] :
            t \in {Given(k) : k \in CELL_TYPES} \cup {Missing}}

NoCircuitBreaker ==
    [present |-> FALSE, complexity_budget |-> UndefinedValue, safe_mode_action |-> Missing]

\* the contract sections of the documents of a given type: `fieldsOf` is the
\* cell type whose contract fields the section holds, all of them valid
\* ("none": it holds none)
DocumentContracts(type) ==
    {[present |-> FALSE, fieldsOf |-> "none", circuit_breaker |-> NoCircuitBreaker]}
    \cup {[present |-> TRUE, fieldsOf |-> f, circuit_breaker |-> cb] :
            f \in {type, "none"},
            cb \in {NoCircuitBreaker}
                   \cup {[present |-> TRUE, complexity_budget |-> b, safe_mode_action |-> a] :
                           b \in BudgetValues,
                           a \in {Missing, Given("halt"), Given(SAFE_MODE_ACTIONS(type))}}}

\* the file a child reference names, by the type in its name:
\* "./<alias>.transformer.fc" or "./<alias>.channel.fc"
RefTypes == {"transformer", "channel"}

NoChildRefs == [present |-> FALSE, refs |-> <<>>]

\* the children sections of the documents: none, or a list of references,
\* each with a ref and an alias of its own
DocumentChildren ==
    {NoChildRefs}
    \cup {[present |-> TRUE, refs |-> refs] :
            refs \in UNION {[1..n -> RefTypes] : n \in 0..MaxChildRefs}}

\* the sections a document either holds complete and valid, or lacks
Sections == {"lineage", "logic", "signature", "channels", "connects"}

SectionSets == {Sections, {}} \cup {Sections \ {s} : s \in Sections}

\* the document without a root "cell" key
RootlessDocument ==
    [cell |-> FALSE, identity |-> CHOOSE i \in DocumentIdentities : ~i.present,
     contract |-> [present |-> FALSE, fieldsOf |-> "none",
                   circuit_breaker |-> NoCircuitBreaker],
     sections |-> {}, children |-> NoChildRefs, signature |-> <<>>]

extractIdentity(raw) ==
    IF ~raw.present THEN [name |-> "", version |-> "", type |-> "Transformer"]
    ELSE [name |-> StringOrEmpty(raw.name), version |-> StringOrEmpty(raw.version),
          type |-> StringOrEmpty(raw.type)]

extractCircuitBreaker(raw) ==
    IF ~raw.present THEN [complexity_budget |-> Finite(0), safe_mode_action |-> ""]
    ELSE [complexity_budget |->
              IF raw.complexity_budget.typeof = "number"
              THEN raw.complexity_budget.value ELSE Finite(0),
          safe_mode_action |-> StringOrEmpty(raw.safe_mode_action)]

\* the contract of the shape of cellType (a Transformer's for an unknown
\* type); `filled`: the document gave every field of that shape a valid value
extractContract(cellType, raw) ==
    IF ~raw.present
    THEN [shape |-> "Transformer", filled |-> FALSE,
          circuit_breaker |-> [complexity_budget |-> Finite(0), safe_mode_action |-> "halt"]]
    ELSE LET shape == IF cellType \in CELL_TYPES THEN cellType ELSE "Transformer"
         IN  [shape |-> shape, filled |-> raw.fieldsOf = shape,
              circuit_breaker |-> extractCircuitBreaker(raw.circuit_breaker)]

extractLineage(present) ==
    IF ~present
    THEN [source |-> "", trigger |-> "", justification |-> "", parent_context_hash |-> ""]
    ELSE [source |-> "a", trigger |-> "b", justification |-> "c",
          parent_context_hash |-> "0x0"]

extractCell(raw) ==
    LET identity == extractIdentity(raw.identity)
    IN  [identity |-> identity,
         contract |-> extractContract(identity.type, raw.contract),
         lineage |-> extractLineage("lineage" \in raw.sections),
         \* null, or lang and every method given
         logic |-> [null |-> "logic" \notin raw.sections],
         \* extractSignature(raw.signature): the string under the key, or ""
         signature |-> IF "signature" \in raw.sections THEN raw.signature ELSE <<>>,
         children |-> [defined |-> raw.children.present, refs |-> raw.children.refs],
         channels |-> [defined |-> "channels" \in raw.sections],
         connects |-> [defined |-> "connects" \in raw.sections]]

\* a parser that fails on no document
parseFC_neverThrows(content) == [threw |-> FALSE, cell |-> extractCell(content)]

\* parseFC(content): [threw, cell]
parseFC(content) ==
    IF ~content.cell
    THEN [threw |-> TRUE, cell |-> extractCell(content)]
    ELSE [threw |-> FALSE, cell |-> extractCell(content)]

\* a string as the characters it is made of; the fields of these documents
\* are one unit each, and "" is no character at all
Characters(str) == IF str = "" THEN <<>> ELSE <<str>>

\* JSON.stringify(resolveTypeSchema(typeName)) for a built-in primitive, or
\* for the "" an unfilled contract holds
SchemaOf(contract) == IF contract.filled THEN <<"{type:t}">> ELSE <<"{type:}">>

\* computeExpectedSignature(cell, projectRoot): the contract fields of a
\* Channel, and of a cell of no known type, are left out
computeExpectedSignature(cell) ==
    LET hasSchemas == cell.identity.type \in {"Transformer", "Reactor", "Keeper"}
        schema == IF hasSchemas THEN SchemaOf(cell.contract) ELSE <<"{}">>
    IN  sha256(Characters(cell.identity.name)
               \o Characters(ToLowerCase(cell.identity.type))
               \o Characters(cell.identity.version)
               \o schema \o schema
               \o Characters(cell.lineage.source) \o Characters(cell.lineage.trigger)
               \o Characters(cell.lineage.justification))

\* the placeholder of an unsigned file, and the "0x" a signature may start with
PlaceholderSignature == <<"0", "x", "0", "0", "0", "0">>

HexPrefix == <<"0", "x">>

\* str.startsWith(prefix)
startsWith(str, prefix) ==
    Len(str) >= Len(prefix) /\ SubSeq(str, 1, Len(prefix)) = prefix

\* the signatures a file may declare for the cell it describes: the
\* placeholder, the computed one with and without "0x", and the digest of
\* other content
DeclaredSignatures(unsigned) ==
    LET computed == computeExpectedSignature(extractCell(unsigned))
    IN  {PlaceholderSignature, computed, HexPrefix \o computed, sha256(<<"other">>)}

\* Step holds of one of the documents: the one without a root "cell" key, or
\* one with a root, any of the sections above and, under a signature key, any
\* of the signatures a file may declare for its cell
ForSomeDocument(Step(_)) ==
    \/ Step(RootlessDocument)
    \/ \E i \in DocumentIdentities, s \in SectionSets, ch \in DocumentChildren :
          \E c \in DocumentContracts(IF i.type.given THEN i.type.value ELSE "Transformer") :
              LET unsigned == [cell |-> TRUE, identity |-> i, contract |-> c,
                               sections |-> s, children |-> ch, signature |-> <<>>]
              IN  \E sig \in (IF "signature" \in s THEN DeclaredSignatures(unsigned)
                               ELSE {<<>>}) :
                      Step([unsigned EXCEPT !.signature = sig])

validateIdentity(cell) ==
    (IF cell.identity.name = "" THEN <<"identity.name">> ELSE <<>>)
    \o (IF cell.identity.version # "1.0.0" THEN <<"identity.version">> ELSE <<>>)
    \o (IF cell.identity.type \notin CELL_TYPES THEN <<"identity.type">> ELSE <<>>)

validateContract(cell) ==
    IF cell.identity.type \in CELL_TYPES /\ ~cell.contract.filled
    THEN <<"contract">> ELSE <<>>

validateCircuitBreaker(cell) ==
    LET cb == cell.contract.circuit_breaker
    IN  (IF ~IsInteger(cb.complexity_budget) \/ AtMostZero(cb.complexity_budget)
         THEN <<"contract.circuit_breaker.complexity_budget">> ELSE <<>>)
        \o (IF cell.identity.type \in CELL_TYPES
                 /\ cb.safe_mode_action # SAFE_MODE_ACTIONS(cell.identity.type)
            THEN <<"contract.circuit_breaker.safe_mode_action">> ELSE <<>>)
        \o (IF cb.safe_mode_action = ""
            THEN <<"contract.circuit_breaker.safe_mode_action">> ELSE <<>>)

validateLineage(cell) ==
    (IF cell.lineage.source = "" THEN <<"lineage.source">> ELSE <<>>)
    \o (IF cell.lineage.trigger = "" THEN <<"lineage.trigger">> ELSE <<>>)
    \o (IF cell.lineage.justification = "" THEN <<"lineage.justification">> ELSE <<>>)
    \o (IF cell.lineage.parent_context_hash = ""
        THEN <<"lineage.parent_context_hash">> ELSE <<>>)

validateLogic(cell) ==
    IF cell.identity.type = "Channel" THEN <<>>
    ELSE IF cell.logic.null THEN <<"logic">>
    ELSE <<>>

validateSignature(cell) == IF cell.signature = <<>> THEN <<"signature">> ELSE <<>>

\* cell.children.filter((c) => !c.ref.includes(".channel."))
nonChannelChildren(cell) ==
    {i \in 1..Len(cell.children.refs) : cell.children.refs[i] # "channel"}

\* every child reference of these documents has a ref and an alias; the one
\* channel of a channels section is named after the alias of the first child
\* and has no edges, so a declaration is never reported for its name
validateComposition(cell) ==
    IF ~cell.children.defined \/ Len(cell.children.refs) = 0 THEN <<>>
    ELSE IF Cardinality(nonChannelChildren(cell)) >= 2 /\ ~cell.channels.defined
         THEN <<"channels">>
    ELSE <<>>

\* the file the cell was read from is <name>.<fileType>.fc
validateFileName(cell, fileType) ==
    IF fileType # ToLowerCase(cell.identity.type) THEN <<"filename">> ELSE <<>>

\* validateCell(cell): the violations; every type reference of these
\* documents is a built-in primitive
validateCell(cell) ==
    validateIdentity(cell) \o validateContract(cell) \o validateCircuitBreaker(cell)
    \o validateLineage(cell) \o validateLogic(cell) \o validateSignature(cell)
    \o validateComposition(cell)

\* the budget stage without its upper limit
checkBudget_noMaximum(cell) ==
    IF AtMostZero(cell.contract.circuit_breaker.complexity_budget)
    THEN <<"must be positive">> ELSE <<>>

checkBudget(cell) ==
    LET budget == cell.contract.circuit_breaker.complexity_budget
    IN  (IF GreaterThan(budget, MAX_SAFE_BUDGET) THEN <<"exceeds safe maximum">> ELSE <<>>)
        \o (IF AtMostZero(budget) THEN <<"must be positive">> ELSE <<>>)

\* stage 4 of loadSingleSkill: the declared signature against the computed one
verifyDeclaredSignature(cell) ==
    LET computedSig == computeExpectedSignature(cell)
        declaredSig == cell.signature
        normalizedDeclared ==
            IF startsWith(declaredSig, HexPrefix)
            THEN SubSeq(declaredSig, 3, Len(declaredSig))   \* declaredSig.slice(2)
            ELSE declaredSig
    IN  IF declaredSig # <<>> /\ ~startsWith(declaredSig, PlaceholderSignature)
             /\ normalizedDeclared # computedSig
        THEN <<"Signature mismatch">> ELSE <<>>

\* loadSingleSkill(filePath, projectRoot): the logic bodies of these documents
\* hold no banned pattern
loadSingleSkill(content, fileType) ==
    LET parse == parseFC(content)
        allViolations ==
            validateCell(parse.cell) \o validateFileName(parse.cell, fileType)
            \o verifyDeclaredSignature(parse.cell)
            \o checkBudget(parse.cell)
    IN  IF parse.threw
        THEN [accepted |-> FALSE, allViolationMessages |-> <<"Parse">>]
        ELSE [accepted |-> allViolations = <<>>, allViolationMessages |-> allViolations]

NotParsed == [done |-> FALSE, threw |-> FALSE]

NotValidated == [done |-> FALSE, valid |-> FALSE, violations |-> <<>>]

NotLoaded == [done |-> FALSE, accepted |-> FALSE, allViolationMessages |-> <<>>]

InitParser ==
    /\ HeapIdle
    /\ ReactorIdle
    /\ ValidatorIdle
    /\ FamilyIdle
    /\ ChannelIdle
    /\ document = <<>>
    /\ parsed = NotParsed
    /\ validation = NotValidated
    /\ verdict = NotLoaded

\* what the parser and the skill loader leave alone
outsideParser == <<reactorVars, heapVars, validatorVars, family, channelVars>>

\* parseFC(content), for any of the documents
ParseFC ==
    /\ ~parsed.done
    /\ ~verdict.done
    /\ LET Parse(content) ==
               /\ document' = content
               /\ parsed' = [done |-> TRUE, threw |-> parseFC(content).threw]
       IN  ForSomeDocument(Parse)
    /\ UNCHANGED <<validation, verdict>>
    /\ UNCHANGED outsideParser

\* validateCell(cell) on the cell parseFC returned
ValidateCell ==
    /\ parsed.done
    /\ ~parsed.threw
    /\ ~validation.done
    /\ LET violations == validateCell(parseFC(document).cell)
       IN  validation' = [done |-> TRUE, valid |-> violations = <<>>,
                          violations |-> violations]
    /\ UNCHANGED <<document, parsed, verdict>>
    /\ UNCHANGED outsideParser

\* loadSingleSkill on a file named for fileType that holds any of the documents
LoadSingleSkill(fileType) ==
    /\ ~parsed.done
    /\ ~verdict.done
    /\ LET Load(content) ==
               LET loaded == loadSingleSkill(content, fileType)
               IN  /\ document' = content
                   /\ verdict' = [done |-> TRUE, accepted |-> loaded.accepted,
                                  allViolationMessages |-> loaded.allViolationMessages]
       IN  ForSomeDocument(Load)
    /\ UNCHANGED <<parsed, validation>>
    /\ UNCHANGED outsideParser

NextParser ==
    \/ ParseFC
    \/ ValidateCell
    \/ \E fileType \in {ToLowerCase(k) : k \in CELL_TYPES} : LoadSingleSkill(fileType)

SpecParser == InitParser /\ [][NextParser]_vars

-----------------------------------------------------------------------------
(* One Channel: send and receive on its buffer *)

\* config.bufferSize ?? 100
DEFAULT_BUFFER_SIZE == 100

\* the value undefined as an item, next to the items that are not undefined
\* ("null" stands for null and the other falsy values)
UndefinedItem == "undefined"

Payloads == {"a", "b", "null", UndefinedItem}

\* the bufferSize a ChannelConfig may hold: none, a whole number from -1 on,
\* 1.5, NaN, Infinity
BufferSizeConfigs ==
    {[given |-> FALSE, value |-> Finite(0)]}
    \cup {[given |-> TRUE, value |-> v] :
            v \in {Finite(n) : n \in -1..MaxBufferSize}
                  \cup {Fractional(1), NaN, PositiveInfinity}}

\* m >= x on JavaScript numbers, m an integer
AtLeast(m, x) ==
    \/ x.class = "finite" /\ m >= x.n
    \/ x.class = "fractional" /\ m > x.n
    \/ x.class = "-Infinity"

\* a send that refuses only a buffer that already holds more than its size
send_onePastFull(buf, size, data) ==
    IF AtLeast(Len(buf) - 1, size)
    THEN [threw |-> TRUE, buffer |-> buf]
    ELSE [threw |-> FALSE, buffer |-> Append(buf, data)]

\* Channel.send(data) on a buffer: whether it threw, and the buffer it leaves
send(buf, size, data) ==
    IF AtLeast(Len(buf), size)
    THEN [threw |-> TRUE, buffer |-> buf]
    ELSE [threw |-> FALSE, buffer |-> Append(buf, data)]

\* Channel.receive() on a buffer: shift() takes the first item off, or gives
\* undefined for an empty buffer; then the item is compared with undefined
receive(buf) ==
    LET item == IF buf = <<>> THEN UndefinedItem ELSE Head(buf)
        rest == IF buf = <<>> THEN <<>> ELSE Tail(buf)
    IN  [threw |-> item = UndefinedItem, buffer |-> rest, item |-> item]

\* new Channel(config)
InitChannel ==
    /\ HeapIdle
    /\ ReactorIdle
    /\ ValidatorIdle
    /\ ParserIdle
    /\ FamilyIdle
    /\ buffer = <<>>
    /\ \E size \in BufferSizeConfigs :
          bufferSize = IF size.given THEN size.value ELSE Finite(DEFAULT_BUFFER_SIZE)
    /\ sent = <<>>
    /\ received = <<>>
    /\ lastCall = Constructed

\* what the calls on the Channel leave alone
outsideChannel == <<reactorVars, heapVars, validatorVars, parserVars, family>>

\* channel.send(data)
Send(data) ==
    /\ Len(sent) < MaxSends
    /\ LET call == send(buffer, bufferSize, data)
       IN  /\ buffer' = call.buffer
           /\ sent' = IF call.threw THEN sent ELSE Append(sent, data)
           /\ lastCall' = [op |-> "send", threw |-> call.threw, data |-> data,
                           before |-> buffer]
    /\ UNCHANGED <<bufferSize, received>>
    /\ UNCHANGED outsideChannel

\* channel.receive()
Receive ==
    /\ LET call == receive(buffer)
       IN  /\ buffer' = call.buffer
           /\ received' = IF call.threw THEN received ELSE Append(received, call.item)
           /\ lastCall' = [op |-> "receive", threw |-> call.threw, data |-> call.item,
                           before |-> buffer]
    /\ UNCHANGED <<bufferSize, sent>>
    /\ UNCHANGED outsideChannel

NextChannel ==
    \/ \E data \in Payloads : Send(data)
    \/ Receive

SpecChannel == InitChannel /\ [][NextChannel]_vars

-----------------------------------------------------------------------------
(* A family of SDK cells: Reactors, Keepers and Channels that hold each      *)
(* other as children, and the status health() gives for each of them         *)

\* a cell object of the family; a field its class does not have is left at
\* a value that is never read
FamilyCell(cellType, children, budget, size) ==
    [cellType |-> cellType, children |-> children, complexityBudget |-> budget,
     buffer |-> <<>>, bufferSize |-> size]

\* utilization > 0.9, for the whole positive buffer sizes of the family
HighUtilization(cell) == 10 * Len(cell.buffer) > 9 * cell.bufferSize

\* Reactor.health().status
ReactorHealth(cell, statuses) ==
    LET inSafeMode == cell.complexityBudget <= 0
    IN  IF Len(cell.children) = 0
        THEN (IF inSafeMode THEN "safe-mode" ELSE "healthy")
        ELSE IF inSafeMode THEN "safe-mode"
        ELSE IF "unhealthy" \in statuses THEN "unhealthy"
        ELSE IF "degraded" \in statuses \/ "safe-mode" \in statuses THEN "degraded"
        ELSE "healthy"

\* Keeper.health().status
KeeperHealth(cell, statuses) ==
    IF Len(cell.children) = 0 THEN "healthy"
    ELSE IF "unhealthy" \in statuses THEN "unhealthy"
    ELSE IF "degraded" \in statuses THEN "degraded"
    ELSE "healthy"

\* Channel.health().status
ChannelHealth(cell, statuses) ==
    IF Len(cell.children) = 0
    THEN (IF HighUtilization(cell) THEN "degraded" ELSE "healthy")
    ELSE IF "unhealthy" \in statuses THEN "unhealthy"
    ELSE IF "degraded" \in statuses \/ HighUtilization(cell) THEN "degraded"
    ELSE "healthy"

\* f[i].health().status: every class asks each child for its health() first
RECURSIVE healthStatus(_, _)
healthStatus(f, i) ==
    LET cell == f[i]
        statuses == {healthStatus(f, cell.children[k]) : k \in 1..Len(cell.children)}
    IN  CASE cell.cellType = "reactor" -> ReactorHealth(cell, statuses)
          [] cell.cellType = "keeper"  -> KeeperHealth(cell, statuses)
          [] cell.cellType = "channel" -> ChannelHealth(cell, statuses)

\* the cells of the family no other cell holds as a child
FamilyRoots == {i \in 1..Len(family) : \A j \in 1..Len(family) :
                   \A k \in 1..Len(family[j].children) : family[j].children[k] # i}

\* what the steps on the family leave alone
outsideFamily == <<reactorVars, heapVars, validatorVars, parserVars, channelVars>>

\* new Reactor({ children, complexityBudget })
NewReactor(children, budget) ==
    /\ Len(family) < MaxFamilyCells
    /\ family' = Append(family, FamilyCell("reactor", children, budget, 1))
    /\ UNCHANGED outsideFamily

\* new Keeper({ children })
NewKeeper(children) ==
    /\ Len(family) < MaxFamilyCells
    /\ family' = Append(family, FamilyCell("keeper", children, 0, 1))
    /\ UNCHANGED outsideFamily

\* new Channel({ children, bufferSize })
NewChannel(children, size) ==
    /\ Len(family) < MaxFamilyCells
    /\ family' = Append(family, FamilyCell("channel", children, 0, size))
    /\ UNCHANGED outsideFamily

\* family[i].on(event), with a handler that returns
ReactorOn(i) ==
    /\ family[i].cellType = "reactor"
    /\ IF family[i].complexityBudget <= 0
       THEN UNCHANGED family
       ELSE family' = [family EXCEPT ![i].complexityBudget = @ - 1]
    /\ UNCHANGED outsideFamily

\* family[i].send(data)
ChannelSend(i, data) ==
    /\ family[i].cellType = "channel"
    /\ family' = [family EXCEPT
                     ![i].buffer = send(@, Finite(family[i].bufferSize), data).buffer]
    /\ UNCHANGED outsideFamily

InitFamily ==
    /\ HeapIdle
    /\ ReactorIdle
    /\ ValidatorIdle
    /\ ParserIdle
    /\ ChannelIdle
    /\ family = <<>>

NextFamily ==
    \/ \E children \in KidSeqs(FamilyRoots), budget \in 1..MaxFamilyBudget :
          NewReactor(children, budget)
    \/ \E children \in KidSeqs(FamilyRoots) : NewKeeper(children)
    \/ \E children \in KidSeqs(FamilyRoots), size \in 1..MaxBufferSize :
          NewChannel(children, size)
    \/ \E i \in 1..Len(family) : ReactorOn(i)
    \/ \E i \in 1..Len(family) : ChannelSend(i, "a")

SpecFamily == InitFamily /\ [][NextFamily]_vars

-----------------------------------------------------------------------------
(* Claims about the budget state machine, checked under SpecBudget *)

\* the budget the Reactor was configured with
ConfiguredBudget == IF config.given THEN config.value ELSE DEFAULT_COMPLEXITY_BUDGET

NeverReset == ownerResets = 0 /\ selfResets = 0

\* the latest on() invocation was rejected
LastRejected == Len(log) > 0 /\ ~log[Len(log)].admitted

\* C1: a Reactor constructed with a positive-integer budget N and never reset
\* admits its first N on() invocations, each leaving remaining one lower and
\* each running the handler, and rejects the (N+1)th with the Safe-Mode error.
C1_AdmitsExactlyN ==
    (ConfiguredBudget >= 1 /\ NeverReset) =>
        /\ \A k \in 1..Len(log) :
             /\ k <= ConfiguredBudget =>
                  /\ log[k].admitted
                  /\ log[k].remaining = ConfiguredBudget - k
             /\ k = ConfiguredBudget + 1 =>
                  /\ ~log[k].admitted
                  /\ log[k].error = "Safe-Mode"
        /\ handlerRuns = IF Len(log) <= ConfiguredBudget THEN Len(log) ELSE ConfiguredBudget

\* C1 witness: budget 2, never reset, and the third invocation has been rejected
C1_Witness ==
    /\ ConfiguredBudget = 2
    /\ NeverReset
    /\ Len(log) = 3
    /\ log[1].admitted /\ log[2].admitted /\ ~log[3].admitted

\* C2: right after resetBudget() remaining equals the budget the Reactor was
\* configured with, whatever the state it was called in.
C2_ResetRestoresConfigured ==
    lastOp = "resetBudget" => complexityBudget = ConfiguredBudget

\* C2 witness: a second reset, called in the Exhausted state after a rejected
\* invocation, of a Reactor configured with budget 1
C2_Witness ==
    /\ lastOp = "resetBudget"
    /\ ownerResets = 2
    /\ ConfiguredBudget = 1
    /\ LastRejected

\* C3: while remaining is 0 health() reports safe-mode, every on() is
\* rejected and leaves remaining at 0, and remaining leaves 0 only by a
\* resetBudget() call.
C3_SafeModePersists ==
    /\ [](complexityBudget = 0 => health.status = "safe-mode")
    /\ [][complexityBudget = 0 =>
            /\ Len(log') = Len(log) + 1 =>
                 /\ ~log'[Len(log')].admitted
                 /\ complexityBudget' = 0
                 /\ handlerRuns' = handlerRuns
            /\ complexityBudget' # 0 =>
                 /\ lastOp' = "resetBudget"
                 /\ ownerResets' = ownerResets + 1]_vars

\* C3 witness: exhausted after one admitted invocation, then rejected twice
C3_Witness ==
    /\ complexityBudget = 0
    /\ ConfiguredBudget = 1
    /\ ownerResets = 0
    /\ Len(log) = 3
    /\ ~log[2].admitted /\ ~log[3].admitted
    /\ health.status = "safe-mode"

\* C4 as claimed: whatever budget the Reactor was constructed with,
\* remaining is a whole number with 0 <= remaining <= max_units.
C4_AlwaysWithinRange ==
    complexityBudget \in 0..maxBudget

\* C4 as amended: for a Reactor constructed with a budget that is a whole
\* number >= 0 (or with none, the default), 0 <= remaining <= max_units.
C4_WithinRangeForNonNegativeBudget ==
    ConfiguredBudget >= 0 => complexityBudget \in 0..maxBudget

\* C4 witness: remaining is at its lower limit 0 and an invocation was rejected there
C4_Witness ==
    /\ ConfiguredBudget = 2
    /\ complexityBudget = 0
    /\ LastRejected

\* C5 as claimed: without a reset by the owning context a Reactor runs its
\* handler at most max_units times (the handler cannot restore the budget).
C5_HandlerCannotExtendBudget ==
    (ownerResets = 0 /\ ConfiguredBudget >= 0) => handlerRuns <= ConfiguredBudget

\* C6: an invocation rejected for an exhausted budget does not run the
\* handler and changes no field of the cell.
C6_RejectionChangesNothing ==
    [][(Len(log') = Len(log) + 1 /\ ~log'[Len(log')].admitted) =>
          /\ handlerRuns' = handlerRuns
          /\ complexityBudget' = complexityBudget
          /\ maxBudget' = maxBudget
          /\ reactor' = reactor]_vars

\* C6 witness: an invocation has been rejected on a Reactor that had admitted others
C6_Witness ==
    /\ LastRejected
    /\ handlerRuns = 2
    /\ log[Len(log)].remaining = 0

-----------------------------------------------------------------------------
(* Claims about signatures, checked under SpecHeap *)

\* verifySignature as a caller holding cell object i and its children calls it
Verifies(i) == verifySignature(cells[i], ChildSignatures(cells[i]))

\* the permutations of 1..n
Perms(n) == {p \in [1..n -> 1..n] : \A a, b \in 1..n : a # b => p[a] # p[b]}

Permuted(seq, p) == [k \in 1..Len(seq) |-> seq[p[k]]]

\* C7: right after a cell's signature has been computed from its content and
\* its children's stored fingerprints, verifySignature returns true for it.
C7_FreshSignatureVerifies ==
    lastSigned # 0 => Verifies(lastSigned)

\* C7 witness: a cell with two children has just been constructed, one of the
\* children carrying a forged fingerprint
C7_Witness ==
    /\ lastSigned # 0
    /\ Len(cells[lastSigned].children) = 2
    /\ tampers = 1
    /\ \E k \in 1..2 : cells[cells[lastSigned].children[k]].signature.hash = sha256(<<"b">>)

\* C8: for every composed cell, every order of its children gives the same
\* hash and the same child-hash list, in computeComposedSignature and in the
\* validator's recomputeHash.
C8_ChildOrderIrrelevant ==
    \A i \in 1..Len(cells) :
        LET sigs == ChildSignatures(cells[i])
            d == DiscoveredHeap[i]
        IN  \A p \in Perms(Len(sigs)) :
                /\ computeComposedSignature(cells[i], Permuted(sigs, p)).hash
                     = computeComposedSignature(cells[i], sigs).hash
                /\ computeComposedSignature(cells[i], Permuted(sigs, p)).children
                     = computeComposedSignature(cells[i], sigs).children
                /\ recomputeHash(DiscoveredHeap, [d EXCEPT !.children = Permuted(d.children, p)])
                     = recomputeHash(DiscoveredHeap, d)

\* C8 witness: a freshly constructed cell whose two children were given in
\* descending order of their hashes
C8_Witness ==
    /\ lastSigned # 0
    /\ Len(cells[lastSigned].children) = 2
    /\ LET sigs == ChildSignatures(cells[lastSigned])
       IN  /\ StrLess(sigs[2].hash, sigs[1].hash)
           /\ cells[lastSigned].signature.children = ChildList(<<sigs[2].hash, sigs[1].hash>>)

\* the values tried for a provenance field
ProbeValues == {<<>>, <<"a">>, <<"b">>, <<"c">>, <<"a", "b">>, <<"b", "c">>}

\* changing field `field` of cell object i to `value` changes its fingerprint,
\* as the SDK computes it and as the validator recomputes it
ChangesFingerprint(i, field, value) ==
    LET changed == WithField(cells[i], field, value)
        d == DiscoveredHeap[i]
    IN  /\ computeSignature(changed).hash # computeSignature(cells[i]).hash
        /\ recomputeHash(DiscoveredHeap, WithField(d, field, value))
             # recomputeHash(DiscoveredHeap, d)

\* C9 as claimed: changing any one of the four provenance fields changes the
\* fingerprint.
C9_EveryProvenanceFieldHashed ==
    \A i \in 1..Len(cells) :
        \A field \in {"source", "trigger", "justification", "parentSignature"} :
            \A value \in ProbeValues :
                WithField(cells[i], field, value) # cells[i] =>
                    ChangesFingerprint(i, field, value)

\* C9 as amended: changing any one of source, trigger and justification
\* changes the fingerprint; changing the parent fingerprint leaves it as it was.
C9_HashedProvenanceFields ==
    \A i \in 1..Len(cells) :
        \A value \in ProbeValues :
            /\ \A field \in {"source", "trigger", "justification"} :
                   WithField(cells[i], field, value) # cells[i] =>
                       ChangesFingerprint(i, field, value)
            /\ computeSignature(WithField(cells[i], "parentSignature", value)).hash
                 = computeSignature(cells[i]).hash

\* C9 witness: the trigger of a composed cell was overwritten after
\* construction and its stored fingerprint no longer verifies
C9_Witness ==
    \E i \in 1..Len(cells) :
        /\ Len(cells[i].children) > 0
        /\ cells[i].lineage.trigger # validLineage.trigger
        /\ ~Verifies(i)
        /\ signatureCheck(DiscoveredHeap, <<i>>, 1).violations # <<>>

\* C10 as claimed: verifySignature returns true for a composed cell only if
\* the stored child-hash list is the sorted list of its children's hashes.
C10_VerifyChecksChildList ==
    \A i \in 1..Len(cells) :
        (Len(cells[i].children) > 0 /\ Verifies(i)) =>
            cells[i].signature.children =
                ChildList(Sort([k \in 1..Len(cells[i].children) |->
                                   cells[cells[i].children[k]].signature.hash]))

\* cell object i passes the validator's signature check and its
\* self-similarity check
PassesSignatureAndSelfSimilarity(i) ==
    /\ signatureCheck(DiscoveredHeap, <<i>>, 1) = Returned(<<>>)
    /\ selfSimilarityCheck(DiscoveredHeap, <<i>>, 1) = Returned(<<>>)

\* a leaf carries no child-hash list
LeafCarriesNoList(cell) ==
    Len(cell.children) = 0 => ~cell.signature.children.defined

\* a composed cell carries a child-hash list as long as its list of children
ComposedCarriesList(cell) ==
    Len(cell.children) > 0 =>
        /\ cell.signature.children.defined
        /\ Len(cell.signature.children.list) = Len(cell.children)

\* C11 as claimed: a cell the SDK has just constructed, and a cell that passes
\* the signature check and the self-similarity check, carries no child-hash
\* list if it is a leaf and one of the length of its children if it is composed.
C11_ChildListMatchesChildren ==
    /\ lastSigned # 0 =>
           LeafCarriesNoList(cells[lastSigned]) /\ ComposedCarriesList(cells[lastSigned])
    /\ \A i \in 1..Len(cells) :
           PassesSignatureAndSelfSimilarity(i) =>
               LeafCarriesNoList(cells[i]) /\ ComposedCarriesList(cells[i])

\* C11 as amended: the constructors give a leaf no list and a composed cell a
\* list of the length of its children; a composed cell that passes the two
\* checks carries a list of the length of its children.
C11_ConstructedAndCheckedComposed ==
    /\ lastSigned # 0 =>
           LeafCarriesNoList(cells[lastSigned]) /\ ComposedCarriesList(cells[lastSigned])
    /\ \A i \in 1..Len(cells) :
           PassesSignatureAndSelfSimilarity(i) => ComposedCarriesList(cells[i])

\* C11 witness: a leaf that was given a child-hash list after construction and
\* a composed cell built over it both pass the two checks
C11_Witness ==
    \E i, j \in 1..Len(cells) :
        /\ Len(cells[i].children) = 0
        /\ cells[i].signature.children.defined
        /\ PassesSignatureAndSelfSimilarity(i)
        /\ Len(cells[j].children) = 2
        /\ lastSigned = j
        /\ PassesSignatureAndSelfSimilarity(j)

-----------------------------------------------------------------------------
(* Claims about the validator's checks, checked on discovered graphs *)

\* the cells a check reported with a message
ReportedBy(result, message) ==
    {result.violations[k].cell : k \in
        {k \in 1..Len(result.violations) : result.violations[k].message = message}}

\* the kinds of the children of cell i in plan p
ChildKinds(p, i) == [k \in 1..Len(p[i].children) |-> p[p[i].children[k]].kind]

NonChannelCount(p, i) ==
    Cardinality({k \in 1..Len(p[i].children) : ChildKinds(p, i)[k] # "channel"})

ChannelCount(p, i) ==
    Cardinality({k \in 1..Len(p[i].children) : ChildKinds(p, i)[k] = "channel"})

MissingChannel == "no Channel to mediate communication"

\* C12: compositionCheck reports a missing Channel for a cell, at whatever
\* depth, exactly when the cell has two or more non-Channel children and no
\* Channel child; a cell with no or one non-Channel child is never reported;
\* and the same graph with one Channel child added to a reported cell no
\* longer has that cell reported.
C12_MissingChannelIffTwoSiblingsNoChannel ==
    (report.ran /\ report.results.compositionCheck.error = "none") =>
        \A i \in 1..Len(plan) :
            LET reported ==
                    NodeName(i) \in ReportedBy(report.results.compositionCheck,
                                               MissingChannel)
                mediated == Build(WithCell(plan, i,
                                [kind |-> "channel", defect |-> "none"]))
            IN  /\ reported <=> (NonChannelCount(plan, i) >= 2 /\ ChannelCount(plan, i) = 0)
                /\ NonChannelCount(plan, i) <= 1 => ~reported
                /\ reported =>
                      NodeName(i) \notin
                          ReportedBy(compositionCheck(mediated, <<1>>, 1), MissingChannel)

\* a cell below the root, with two non-Channel children and no Channel, was
\* reported, and in the same run a cell with a Channel child was not
C12_Witness ==
    /\ report.ran
    /\ \E i \in 1..Len(plan) :
          /\ DepthOf(plan, i) >= 1
          /\ NonChannelCount(plan, i) = 2
          /\ NodeName(i) \in ReportedBy(report.results.compositionCheck, MissingChannel)
    /\ \E j \in 1..Len(plan) :
          /\ ChannelCount(plan, j) = 1
          /\ NodeName(j) \notin ReportedBy(report.results.compositionCheck, MissingChannel)

\* the context map of cell i leaves out the name of one of its children, or
\* the name of one of its Channel children from the channel list
OmitsAName(g, i) ==
    LET kids == Children(g, g[i])
    IN  \/ \E k \in 1..Len(kids) :
              ~Includes(g[i].contextMap.children, kids[k].identity.name)
        \/ \E k \in 1..Len(kids) :
              /\ kids[k].identity.cellType = "channel"
              /\ ~Includes(g[i].contextMap.channels, kids[k].identity.name)

\* contextMapCheck reaches cell i: the cell and its ancestors have toMap()
ReachedByContextMapCheck(p, g, i) ==
    \A j \in AncestorsOrSelf(p, i) : g[j].hasToMapMethod /\ ~g[j].contextMap.undefined

ChildrenNotListed == "Composed cell's context map does not list children"

ChannelsNotListed ==
    "Composed cell has Channel children but context map does not list channels"

ChildNotInMap == "Child exists but is not listed in parent's context map"

ChannelNotInMap ==
    "Channel exists as a child but is not listed in parent's context map channels"

\* C13 as stated: contextMapCheck reports every composed cell whose context
\* map omits the name of any one child, or any one Channel child from the
\* channel list.
C13_ContextMapCheckReportsEveryOmission ==
    report.ran =>
        \A i \in 1..Len(plan) :
            (Len(tree[i].children) > 0 /\ OmitsAName(tree, i)) =>
                \E k \in 1..Len(report.results.contextMapCheck.violations) :
                    report.results.contextMapCheck.violations[k].cell = NodeName(i)

\* C13, amended: contextMapCheck reports a composed cell it reaches exactly
\* for a child-name list that is missing or empty, and for a channel-name list
\* that is missing or empty while the cell has Channel children; the omission
\* of any one name is reported for the cell by compositionCheck.
C13_EmptyListsByContextMapCheckOmissionsByComposition ==
    (/\ report.ran
     /\ report.results.contextMapCheck.error = "none"
     /\ report.results.compositionCheck.error = "none") =>
        \A i \in 1..Len(plan) :
            (Len(tree[i].children) > 0 /\ ReachedByContextMapCheck(plan, tree, i)) =>
                LET map == tree[i].contextMap
                    byMap(message) ==
                        NodeName(i) \in ReportedBy(report.results.contextMapCheck, message)
                    byComposition(message) ==
                        NodeName(i) \in ReportedBy(report.results.compositionCheck, message)
                IN  /\ byMap(ChildrenNotListed) <=> map.children.list = <<>>
                    /\ byMap(ChannelsNotListed) <=>
                          (ChannelCount(plan, i) > 0 /\ map.channels.list = <<>>)
                    /\ OmitsAName(tree, i) <=>
                          (byComposition(ChildNotInMap) \/ byComposition(ChannelNotInMap))

\* a cell with two children whose map names only one of them went through
\* both checks: compositionCheck reported it, contextMapCheck did not; and a
\* cell whose only child is left out was reported by contextMapCheck
C13_Witness ==
    /\ report.ran
    /\ \E i \in 1..Len(plan) :
          /\ Len(tree[i].children) = 2
          /\ Len(tree[i].contextMap.children.list) = 1
          /\ NodeName(i) \in ReportedBy(report.results.compositionCheck, ChildNotInMap)
          /\ NodeName(i) \notin ReportedBy(report.results.contextMapCheck, ChildrenNotListed)
    /\ \E j \in 1..Len(plan) :
          /\ Len(tree[j].children) = 1
          /\ NodeName(j) \in ReportedBy(report.results.contextMapCheck, ChildrenNotListed)

\* the stored hash of cell i is well formed and is not the recomputed one
StoredHashDiffers(g, i) ==
    /\ ~g[i].signature.undefined
    /\ IsSha256(g[i].signature.hash)
    /\ recomputeHash(g, g[i]).error = "none"
    /\ g[i].signature.hash # recomputeHash(g, g[i]).hash

\* C14: signatureCheck examines every cell of the tree: when it returns, every
\* cell whose stored hash differs from the recomputed one has been reported
\* with a signature mismatch, whatever was found at its ancestors.
C14_MismatchReportedAtEveryDepth ==
    (report.ran /\ report.results.signatureCheck.error = "none") =>
        \A i \in 1..Len(plan) :
            StoredHashDiffers(tree, i) =>
                NodeName(i) \in ReportedBy(report.results.signatureCheck,
                                           "Signature mismatch")

\* signatureCheck returned, a cell below the root has a stored hash that
\* differs from the recomputed one, and nothing was reported for that cell
C14_Witness ==
    /\ report.ran
    /\ report.results.signatureCheck.error = "none"
    /\ \E i \in 2..Len(plan) :
          /\ StoredHashDiffers(tree, i)
          /\ \A k \in 1..Len(report.results.signatureCheck.violations) :
                report.results.signatureCheck.violations[k].cell # NodeName(i)

\* the checks of the run that threw instead of returning a result
ChecksThatThrew ==
    {k \in 1..Len(CheckNames) : report.results[CheckNames[k]].error # "none"}

\* a part of cell i that the checks read is undefined
HasMissingPart(g, i) ==
    \/ g[i].input.undefined
    \/ g[i].output.undefined
    \/ g[i].lineage.undefined
    \/ g[i].signature.undefined
    \/ g[i].contextMap.undefined

\* C18: on a finite tree of cells, cells with a missing input, output,
\* lineage, signature or context map included, each of the eight checks
\* returns a result; none throws.
C18_EveryCheckReturnsOnATree ==
    (report.ran /\ IsTree(plan)) => ChecksThatThrew = {}

\* the eight checks ran on a tree with a cell that has a missing part
C18_Witness ==
    /\ report.ran
    /\ IsTree(plan)
    /\ \E i \in 1..Len(plan) : HasMissingPart(tree, i)

\* the cell kinds that carry a circuit breaker
NeedsCircuitBreaker(kind) == kind \in {"transformer", "reactor"}

\* health() of cell i gave a report with a budgetRemaining in it
ReportsRemaining(g, i) ==
    /\ g[i].hasHealthMethod
    /\ ~g[i].healthReport.undefined
    /\ g[i].healthReport.budgetRemaining.typeof # "undefined"

\* x is a finite number, zero or more
FiniteNonNegative(x) ==
    x.typeof = "number" /\ x.value.class = "finite" /\ x.value.n >= 0

NotANonNegativeNumber == "budgetRemaining must be a non-negative number"

\* C15: circuitBreakerCheck reports every Transformer and Reactor whose
\* reported remaining budget is not a finite number of zero or more (a negative
\* number, NaN, an infinity, a value that is not a number) and accepts zero.
C15_RemainingMustBeFiniteNonNegative ==
    (report.ran /\ report.results.circuitBreakerCheck.error = "none") =>
        \A i \in 1..Len(plan) :
            (NeedsCircuitBreaker(plan[i].kind) /\ ReportsRemaining(tree, i)) =>
                (NodeName(i) \in ReportedBy(report.results.circuitBreakerCheck,
                                            NotANonNegativeNumber)
                   <=> ~FiniteNonNegative(tree[i].healthReport.budgetRemaining))

\* a Transformer that reports a remaining budget of NaN or Infinity went
\* through circuitBreakerCheck and was not reported
C15_Witness ==
    /\ report.ran
    /\ \E i \in 1..Len(plan) :
          /\ plan[i].kind = "transformer"
          /\ plan[i].defect \in {"NaN", "Infinity"}
          /\ \A k \in 1..Len(report.results.circuitBreakerCheck.violations) :
                report.results.circuitBreakerCheck.violations[k].cell # NodeName(i)

\* the cells circuitBreakerCheck reported, whatever the message
ReportedByCircuitBreakerCheck ==
    {report.results.circuitBreakerCheck.violations[k].cell :
        k \in 1..Len(report.results.circuitBreakerCheck.violations)}

\* C16: circuitBreakerCheck reports every Transformer and Reactor for which
\* no remaining budget is available (no health(), no report obtained from it,
\* a report without budgetRemaining) and never reports a Keeper or a Channel.
C16_MissingRemainingReported ==
    (report.ran /\ report.results.circuitBreakerCheck.error = "none") =>
        \A i \in 1..Len(plan) :
            /\ (NeedsCircuitBreaker(plan[i].kind) /\ ~ReportsRemaining(tree, i)) =>
                  NodeName(i) \in ReportedByCircuitBreakerCheck
            /\ ~NeedsCircuitBreaker(plan[i].kind) =>
                  NodeName(i) \notin ReportedByCircuitBreakerCheck

\* a Transformer or Reactor whose health() threw, so that no report was
\* obtained, went through circuitBreakerCheck and was not reported
C16_Witness ==
    /\ report.ran
    /\ \E i \in 1..Len(plan) :
          /\ NeedsCircuitBreaker(plan[i].kind)
          /\ tree[i].hasHealthMethod
          /\ tree[i].healthReport.undefined
          /\ NodeName(i) \notin ReportedByCircuitBreakerCheck

\* the cell of plan p that has itself or an ancestor as a child (0: none)
CycleSource(p) ==
    IF IsTree(p) THEN 0 ELSE CHOOSE i \in 1..Len(p) : p[i].backEdges # <<>>

\* plan p without the child that closes the cycle
WithoutBackEdge(p) == [i \in 1..Len(p) |-> [p[i] EXCEPT !.backEdges = <<>>]]

\* the check ran out of call stack
Overflowed(result) == result.error = "RangeError"

\* the checks that descend into the children of every cell they visit
AlwaysDescending ==
    {"cellTypeCheck", "contractCheck", "compositionCheck", "selfSimilarityCheck",
     "circuitBreakerCheck", "lineageCheck"}

-----------------------------------------------------------------------------
(* Claims about the parser and the skill loader, checked under SpecParser *)

\* the document configures a budget: it has a circuit_breaker section
HasBudgetSpec ==
    document.cell /\ document.contract.present /\ document.contract.circuit_breaker.present

\* what the document has under complexity_budget
DocumentBudget == document.contract.circuit_breaker.complexity_budget

\* v is a number, an integer, and at least 1
PositiveInteger(v) == v.typeof = "number" /\ v.value.class = "finite" /\ v.value.n >= 1

WithinSafeMaximum(v) == v.value.n <= MAX_SAFE_BUDGET

BudgetField == "contract.circuit_breaker.complexity_budget"

\* C17 as stated: a cell whose configured budget is not a positive integer of
\* at most 1,000,000 never passes validateCell, whatever its type.
C17_BudgetOutsideRangeNeverValid ==
    (validation.done /\ HasBudgetSpec
       /\ ~(PositiveInteger(DocumentBudget) /\ WithinSafeMaximum(DocumentBudget))) =>
        ~validation.valid

\* C17, amended: validateCell reports the configured budget exactly when it
\* is not a positive integer (zero, negative, fractional, infinite, NaN, not a
\* number), whatever the cell type, and so never passes such a cell; a budget
\* above 1,000,000 is not reported by it.  loadSingleSkill, which runs
\* checkBudget after validateCell, never accepts a cell whose budget is not
\* a positive integer of at most 1,000,000.
C17_PositiveIntegerByValidateCellMaximumByLoader ==
    /\ (validation.done /\ HasBudgetSpec) =>
          /\ (\E k \in 1..Len(validation.violations) :
                 validation.violations[k] = BudgetField)
                <=> ~PositiveInteger(DocumentBudget)
          /\ ~PositiveInteger(DocumentBudget) => ~validation.valid
    /\ (verdict.done /\ HasBudgetSpec
          /\ ~(PositiveInteger(DocumentBudget) /\ WithinSafeMaximum(DocumentBudget))) =>
          ~verdict.accepted

\* the skill loader rejected a document whose budget is 1,000,001 for the
\* budget alone: validateCell has nothing to report on its cell
C17_Witness ==
    /\ verdict.done
    /\ HasBudgetSpec
    /\ DocumentBudget = NumberValue(Finite(MAX_SAFE_BUDGET + 1))
    /\ ~verdict.accepted
    /\ verdict.allViolationMessages = <<"exceeds safe maximum">>
    /\ validateCell(parseFC(document).cell) = <<>>

\* C20: parseFC infers nothing: a section or field the document does not
\* have is empty or absent in the cell it returns.
C20_AbsentInDocumentEmptyInCell ==
    (parsed.done /\ ~parsed.threw) =>
        LET cell == parseFC(document).cell
            cb == cell.contract.circuit_breaker
        IN  /\ ~document.identity.name.given => cell.identity.name = ""
            /\ ~document.identity.version.given => cell.identity.version = ""
            /\ ~document.identity.type.given => cell.identity.type = ""
            /\ ~document.contract.present => ~cell.contract.filled
            /\ ~document.contract.circuit_breaker.present =>
                  /\ cb.complexity_budget = Finite(0)
                  /\ cb.safe_mode_action = ""
            /\ "lineage" \notin document.sections =>
                  \A f \in DOMAIN cell.lineage : cell.lineage[f] = ""
            /\ "logic" \notin document.sections => cell.logic.null
            /\ "signature" \notin document.sections => cell.signature = <<>>
            /\ ~document.children.present => ~cell.children.defined
            /\ "channels" \notin document.sections => ~cell.channels.defined
            /\ "connects" \notin document.sections => ~cell.connects.defined

\* parseFC returned a cell of type "Transformer" for a document that has no
\* identity section
C20_Witness ==
    /\ parsed.done
    /\ ~parsed.threw
    /\ ~document.identity.present
    /\ parseFC(document).cell.identity.type = "Transformer"

\* the required top-level sections a document with a root "cell" key lacks
LackingSections ==
    (IF document.identity.present THEN {} ELSE {"identity"})
    \cup (IF document.contract.present THEN {} ELSE {"contract"})
    \cup ({"lineage", "signature"} \ document.sections)

\* a field of each required section that validateCell demands
FieldDemandedOf(section) ==
    CASE section = "identity"  -> "identity.name"
      [] section = "contract"  -> BudgetField
      [] section = "lineage"   -> "lineage.source"
      [] section = "signature" -> "signature"

CompositionReported ==
    \E k \in 1..Len(validation.violations) : validation.violations[k] = "channels"

\* the children the parsed cell declares by a file of a Channel
ChannelChildren ==
    LET refs == parseFC(document).cell.children.refs
    IN  {i \in 1..Len(refs) : refs[i] = "channel"}

\* C22: validateCell reports a composition violation for every parsed cell
\* that declares at least two children that are not Channels and no child
\* that is a Channel.
C22_TwoSiblingsWithoutChannelChildReported ==
    (validation.done
       /\ Cardinality(nonChannelChildren(parseFC(document).cell)) >= 2
       /\ ChannelChildren = {}) =>
        CompositionReported

\* validateCell found a cell valid that declares two Transformer children, no
\* Channel child, and a channels section that names the first Transformer
C22_Witness ==
    /\ validation.done
    /\ validation.valid
    /\ document.children = [present |-> TRUE, refs |-> <<"transformer", "transformer">>]
    /\ "channels" \in document.sections

\* the declared signature of the loaded file without its optional "0x"
NormalizedDeclared ==
    LET declaredSig == parseFC(document).cell.signature
    IN  IF startsWith(declaredSig, HexPrefix)
        THEN SubSeq(declaredSig, 3, Len(declaredSig))   \* declaredSig.slice(2)
        ELSE declaredSig

\* C30: every skill the loader accepts declares, after an optional "0x" is
\* stripped, the signature computed from its content.
C30_AcceptedSkillDeclaresTheComputedSignature ==
    (verdict.done /\ verdict.accepted) =>
        NormalizedDeclared = computeExpectedSignature(parseFC(document).cell)

\* the loader accepted a file whose signature is the placeholder, which is
\* not the signature computed from its content
C30_Witness ==
    /\ verdict.done
    /\ verdict.accepted
    /\ document.signature = PlaceholderSignature
    /\ NormalizedDeclared # computeExpectedSignature(parseFC(document).cell)

\* what stage 4 does ensure: an accepted skill declares the computed
\* signature, with or without "0x", or one that starts with the placeholder;
\* and a declared digest of other content is reported as a mismatch
C30_AcceptedDeclaresComputedOrPlaceholder ==
    /\ (verdict.done /\ verdict.accepted) =>
          \/ NormalizedDeclared = computeExpectedSignature(parseFC(document).cell)
          \/ startsWith(parseFC(document).cell.signature, PlaceholderSignature)
    /\ (verdict.done /\ document.cell /\ document.signature = sha256(<<"other">>)) =>
          \E k \in 1..Len(verdict.allViolationMessages) :
              verdict.allViolationMessages[k] = "Signature mismatch"

-----------------------------------------------------------------------------
(* The validator's recomputation against the signature engine, checked under *)
(* SpecHeap *)

\* C26: for every cell of the heap, whatever was done to it, the hash the
\* validator recomputes is the hash the SDK computes from the same fields and
\* the same child hashes; and as long as nothing was changed after
\* construction, signatureCheck reports nothing on any tree of the heap.
C26_ValidatorRecomputesTheSdkHash ==
    /\ \A i \in 1..Len(cells) :
          recomputeHash(DiscoveredHeap, DiscoveredHeap[i])
            = [error |-> "none", hash |-> computeSignature(cells[i]).hash]
    /\ tampers = 0 =>
          \A i \in 1..Len(cells) : signatureCheck(DiscoveredHeap, <<i>>, 1) = Returned(<<>>)

\* three cells were constructed one above the other, nothing was changed,
\* and signatureCheck has descended from the root to the leaf
C26_Witness ==
    /\ Len(cells) = 3
    /\ tampers = 0
    /\ cells[2].children = <<1>>
    /\ cells[3].children = <<2>>
    /\ signatureCheck(DiscoveredHeap, <<3>>, 1) = Returned(<<>>)
    /\ recomputeHash(DiscoveredHeap, DiscoveredHeap[3]).hash = cells[3].signature.hash

\* the fields of a cell object that go into the hashed content and hold a string
ContentStrings == {"name", "source", "trigger", "justification"}

\* the cells that differ from `cell` in one field of the hashed content:
\* a string field, the cell type, the version, or one of the two schemas
SingleFieldVariants(cell) ==
    ({WithField(cell, field, value) : field \in ContentStrings, value \in ProbeValues}
       \cup {[cell EXCEPT !.identity.cellType = k] : k \in VALID_CELL_TYPES}
       \cup {[cell EXCEPT !.identity.version = v] : v \in {<<"1">>, <<"2">>, <<"1", "2">>}}
       \cup {[cell EXCEPT !.input.schema = sch] : sch \in {<<>>, << <<<<"t">>, <<"a">>>> >>}}
       \cup {[cell EXCEPT !.output.schema = sch] : sch \in {<<>>, << <<<<"t">>, <<"a">>>> >>}})
      \ {cell}

\* the cells that differ from `cell` in one or two string fields of the content
TwoFieldVariants(cell) ==
    {WithField(WithField(cell, f1, v1), f2, v2) :
        f1 \in ContentStrings, f2 \in ContentStrings, v1 \in ProbeValues, v2 \in ProbeValues}
      \ {cell}

\* the lists of child signatures a composed cell could be given instead of
\* its own: the hashes are those of cells of the heap, or forged
OtherChildSignatures ==
    LET hashes == {cells[j].signature.hash : j \in 1..Len(cells)} \cup ForgedHashes
    IN  UNION {[1..n -> {[hash |-> h, children |-> NoChildren, timestamp |-> ToISOString(1)] :
                           h \in hashes}] : n \in 1..MaxKids}

\* the hashes of a list of signatures, sorted: equal for two lists exactly
\* when the lists hold the same hashes the same number of times
SortedHashes(sigs) == Sort([k \in 1..Len(sigs) |-> sigs[k].hash])

\* every hash of a list of signatures is a well-formed digest
AllDigests(sigs) == \A k \in 1..Len(sigs) : IsSha256(sigs[k].hash)

-----------------------------------------------------------------------------
(* Claims about the Channel, checked under SpecChannel *)

\* C24: the k-th receive() that returns gives the k-th item whose send()
\* returned, in every interleaving of the calls.
C24_ReceivedInTheOrderSent ==
    /\ Len(received) <= Len(sent)
    /\ \A k \in 1..Len(received) : received[k] = sent[k]

\* undefined was sent, then "a"; the first receive() that returned gave "a"
C24_Witness ==
    /\ sent = <<UndefinedItem, "a">>
    /\ received = <<"a">>
    /\ buffer = <<>>

\* the buffer size is a whole number, zero or more
WholeBufferSize == bufferSize.class = "finite" /\ bufferSize.n >= 0

\* m > x on JavaScript numbers, m an integer
Exceeds(m, x) ==
    \/ x.class = "finite" /\ m > x.n
    \/ x.class = "fractional" /\ m > x.n
    \/ x.class = "-Infinity"

\* C25 as stated: the number of buffered items never exceeds the configured
\* buffer size.
C25_NeverMoreThanBufferSize == ~Exceeds(Len(buffer), bufferSize)

\* C25, amended: for a buffer size that is a whole number of at least 0 (or
\* none given: 100) the buffer never holds more items than the size.  For
\* every size, a send() that fails leaves the buffer as it was and found at
\* least bufferSize items in it, a send() that returns has appended its item,
\* and after a receive() that took an item off the next send() returns.
C25_BoundedForWholeSizesFullSendLeavesBuffer ==
    /\ WholeBufferSize => Len(buffer) <= bufferSize.n
    /\ (lastCall.op = "send" /\ lastCall.threw) =>
          /\ buffer = lastCall.before
          /\ AtLeast(Len(buffer), bufferSize)
    /\ (lastCall.op = "send" /\ ~lastCall.threw) =>
          buffer = Append(lastCall.before, lastCall.data)
    /\ (lastCall.op = "receive" /\ lastCall.before # <<>>) =>
          \A data \in Payloads : ~send(buffer, bufferSize, data).threw

\* a Channel of size 1 refused a send() on its full buffer after a receive()
\* had returned and the slot was filled again
C25_Witness ==
    /\ bufferSize = Finite(1)
    /\ lastCall.op = "send"
    /\ lastCall.threw
    /\ Len(buffer) = 1
    /\ Len(sent) = 2
    /\ Len(received) = 1

\* C28: receive() fails exactly on an empty buffer and then removes nothing;
\* on a buffer that holds an item it returns the oldest one, whatever it is.
C28_ReceiveFailsOnlyWhenEmptyAndReturnsOldest ==
    lastCall.op = "receive" =>
        /\ lastCall.threw <=> lastCall.before = <<>>
        /\ lastCall.threw => buffer = lastCall.before
        /\ lastCall.before # <<>> =>
              /\ lastCall.data = Head(lastCall.before)
              /\ buffer = Tail(lastCall.before)
              /\ received # <<>>
              /\ received[Len(received)] = Head(lastCall.before)

\* receive() failed on a buffer that held undefined and "a", and took
\* undefined off it
C28_Witness ==
    /\ lastCall.op = "receive"
    /\ lastCall.threw
    /\ lastCall.before = <<UndefinedItem, "a">>
    /\ buffer = <<"a">>
    /\ received = <<>>

-----------------------------------------------------------------------------
(* Claims about health(), checked under SpecFamily *)

\* the cells below cell i of the family
RECURSIVE Descendants(_, _)
Descendants(f, i) ==
    UNION {{f[i].children[k]} \cup Descendants(f, f[i].children[k]) :
              k \in 1..Len(f[i].children)}

\* C23: when a cell at any depth reports safe-mode, every cell above it,
\* Reactor, Keeper or Channel, reports a status other than healthy.
C23_SafeModeBelowNeverHealthyAbove ==
    \A i \in 1..Len(family) :
        (\E j \in Descendants(family, i) : healthStatus(family, j) = "safe-mode") =>
            healthStatus(family, i) # "healthy"

\* a Keeper that holds an exhausted Reactor reports healthy, and so does the
\* Reactor that holds the Keeper
C23_Witness ==
    /\ Len(family) = 3
    /\ family[1].cellType = "reactor"
    /\ healthStatus(family, 1) = "safe-mode"
    /\ family[2].cellType = "keeper"
    /\ family[2].children = <<1>>
    /\ healthStatus(family, 2) = "healthy"
    /\ family[3].cellType = "reactor"
    /\ family[3].children = <<2>>
    /\ healthStatus(family, 3) = "healthy"

====
